---- MODULE Spec2Model ----
(***************************************************************************)
(* Springfield / Pensa: the tracker engine (crates/pensa/src/db.rs) and    *)
(* the tracker service that wraps it (crates/pensa/src/daemon.rs).         *)
(*                                                                         *)
(* The store is the SQLite database the engine owns.  Every engine         *)
(* operation is a short program of SQL statements run in autocommit mode   *)
(* (db.rs opens no transaction), so each operation is modelled statement   *)
(* by statement: a statement either takes effect or fails on a constraint  *)
(* of the schema (PRIMARY KEY, REFERENCES, CHECK), and a failure returns   *)
(* Internal from the operation with the earlier statements kept.           *)
(*                                                                         *)
(* Issue ids ("pn-" + 8 hex digits) are modelled as 1..MaxIssues, time     *)
(* (db::now, one-second resolution) as a counter.  The payload columns     *)
(* title, description, priority and spec are left out: no statement        *)
(* modelled here reads them.                                               *)
(***************************************************************************)
EXTENDS Integers, Sequences, FiniteSets, TLC

\* ------------------------------------------------------------------ bounds
MaxIssues == 2      \* size of the id space generate_id draws from
MaxCalls == 3       \* engine calls in one behaviour of Spec
MaxClock == 1       \* seconds the clock may advance
MaxDeps == 1        \* length of CreateIssueParams.deps
NumClients == 2     \* concurrent clients of the daemon
MaxComments == 1    \* size of the id space of comments

\* ------------------------------------------------------- values and inputs
None == <<>>
Some(x) == <<x>>

Ids == 1..MaxIssues
Actors == {"a1", "a2"}
Clients == 1..NumClients
CommentIds == 1..MaxComments

\* "fixed by {id}" (db.rs:300), "depends on {parent}", "no longer depends on {parent}"
FixedBy(id) == <<"fixed by ", id>>
DependsOn(id) == <<"depends on ", id>>
NoLongerDependsOn(id) == <<"no longer depends on ", id>>
Reasons == {None, Some(<<"done">>)}

VARIABLES
    db,        \* the SQLite database: tables issues, deps, comments, events, and the AUTOINCREMENT counter
    clock,     \* the wall clock read by db::now()
    calls,     \* number of engine calls made so far (Spec)
    last,      \* the last engine call and what it returned (Spec)
    lock,      \* holder of the Mutex around the Db, 0 when free (SpecDaemon)
    clients,   \* per client: the request in flight, the handler's position, the response (SpecDaemon)
    files,     \* the JSONL files under .pensa/, None until the first export (SpecExport)
    issued,    \* the ids that successful create_issue calls have returned (SpecIds)
    run_dir,   \* the *.pid files under .sgf/run: name |-> contents (SpecSgf)
    tree,      \* the git working tree of the project (SpecSgf)
    orchs,     \* per sgf process: its position in orchestrate::run, its locals, its harness (SpecSgf)
    ralph,     \* the ralph process: its position in main, its locals, the child it runs (SpecRalph)
    cwd,       \* ralph's working directory: the sentinel files, git HEAD, the pushes made (SpecRalph)
    calc       \* a function applied on its own: its input and what it returned

pensaVars == <<db, clock, calls, last, lock, clients, files, issued>>
sgfVars == <<run_dir, tree, orchs>>
ralphVars == <<ralph, cwd>>
outsidePensa == <<sgfVars, ralphVars, calc>>
outsideSgf == <<pensaVars, ralphVars, calc>>
outsideRalph == <<pensaVars, sgfVars, calc>>
outsideCalc == <<pensaVars, sgfVars, ralphVars>>
vars == <<db, clock, calls, last, lock, clients, files, issued, run_dir, tree, orchs, ralph, cwd, calc>>

\* no sgf process runs, no ralph process runs, no function is applied on its own
NoSgf == run_dir = <<>> /\ tree = <<>> /\ orchs = <<>>
NoRalph == ralph = <<>> /\ cwd = <<>>
NoCalc == calc = <<>>

\* ------------------------------------------------------------------ schema
EmptyDb == [issues |-> <<>>, deps |-> {}, comments |-> {}, events |-> <<>>, seq |-> 0]

Exists(S, id) == id \in DOMAIN S.issues

Issue(issue_type, status, fixes, assignee, ts) ==
    [issue_type |-> issue_type, status |-> status, fixes |-> fixes, assignee |-> assignee,
     created_at |-> ts, updated_at |-> ts, closed_at |-> None, close_reason |-> None]

Event(seq, issue_id, event_type, actor, detail, ts) ==
    [id |-> seq, issue_id |-> issue_id, event_type |-> event_type,
     actor |-> actor, detail |-> detail, created_at |-> ts]

\* issues.fixes REFERENCES issues(id): a row may reference itself
FixesFkOk(S, id, fixes) == fixes = None \/ fixes[1] = id \/ Exists(S, fixes[1])

\* deps: both columns REFERENCES issues(id), PRIMARY KEY (issue_id, depends_on_id), CHECK (issue_id != depends_on_id)
DepInsertOk(S, child, parent) ==
    /\ Exists(S, child)
    /\ Exists(S, parent)
    /\ child # parent
    /\ <<child, parent>> \notin S.deps

\* DELETE FROM issues WHERE id: refused while a row of another table, or another issue's fixes, references id
IssueDeleteOk(S, id) ==
    /\ \A j \in DOMAIN S.issues : j # id => S.issues[j].fixes # Some(id)
    /\ \A d \in S.deps : d[1] # id /\ d[2] # id
    /\ \A c \in S.comments : c.issue_id # id
    /\ \A k \in 1..Len(S.events) : S.events[k].issue_id # id

\* INSERT INTO events: events.id is AUTOINCREMENT, events.issue_id REFERENCES issues(id)
InsertEvent(S, issue_id, event_type, actor, detail, ts) ==
    [S EXCEPT !.events = Append(@, Event(S.seq + 1, issue_id, event_type, actor, detail, ts)),
              !.seq = @ + 1]

RemoveIssueRow(S, id) ==
    [S EXCEPT !.issues = [j \in DOMAIN S.issues \ {id} |-> S.issues[j]]]

InsertIssueRow(S, id, row) ==
    [S EXCEPT !.issues = [j \in DOMAIN S.issues \cup {id} |-> IF j = id THEN row ELSE S.issues[j]]]

\* ----------------------------------------------------------------- results
NoRes == [kind |-> "None", holder |-> "", issue |-> None]
Ok(issue) == [kind |-> "Ok", holder |-> "", issue |-> issue]
Err(kind) == [kind |-> kind, holder |-> "", issue |-> None]
AlreadyClaimed(holder) == [kind |-> "AlreadyClaimed", holder |-> holder, issue |-> None]

\* Option<String>::unwrap_or_default()
unwrap_or_default(opt) == IF opt = None THEN "" ELSE opt[1]

\* -------------------------------------------------- the statement machine
\* A configuration of a running operation: the store, the next statement
\* (0 once it has returned), its locals, and its return value.
Loc0 == [ts |-> 0, i |-> 1, fixes |-> None, dependents |-> 0]
Goto(S, pc, loc) == [S |-> S, pc |-> pc, loc |-> loc, res |-> NoRes]
Ret(S, res) == [S |-> S, pc |-> 0, loc |-> Loc0, res |-> res]

\* get_issue_only as the last statement of an operation
get_issue_only(S, id) ==
    IF Exists(S, id) THEN Ret(S, Ok(Some(S.issues[id]))) ELSE Ret(S, Err("NotFound"))

\* --------------------------------------------------------------- requests
NoFields == [status |-> None, assignee |-> None, fixes |-> None]

Req0 == [op |-> "none", id |-> 0, parent |-> 0, cid |-> 0, actor |-> "", issue_type |-> "task", fixes |-> None, assignee |-> None,
         deps |-> <<>>, reason |-> None, force |-> FALSE, fields |-> NoFields]

\* id is the value generate_id() returns to this call
CreateReq(id, fixes, assignee, deps, actor) ==
    [Req0 EXCEPT !.op = "create", !.id = id, !.fixes = fixes, !.assignee = assignee,
                 !.deps = deps, !.actor = actor]
\* a create that gives the issue type
CreateTypedReq(id, issue_type, deps, actor) ==
    [CreateReq(id, None, None, deps, actor) EXCEPT !.issue_type = issue_type]
UpdateReq(id, fields, actor) == [Req0 EXCEPT !.op = "update", !.id = id, !.fields = fields, !.actor = actor]
ClaimReq(id, actor) == [Req0 EXCEPT !.op = "claim", !.id = id, !.actor = actor]
ReleaseReq(id, actor) == [Req0 EXCEPT !.op = "release", !.id = id, !.actor = actor]
CloseReq(id, reason, force, actor) ==
    [Req0 EXCEPT !.op = "close", !.id = id, !.reason = reason, !.force = force, !.actor = actor]
ReopenReq(id, reason, actor) == [Req0 EXCEPT !.op = "reopen", !.id = id, !.reason = reason, !.actor = actor]
DeleteReq(id, force) == [Req0 EXCEPT !.op = "delete", !.id = id, !.force = force]
AddDepReq(child, parent, actor) == [Req0 EXCEPT !.op = "add_dep", !.id = child, !.parent = parent, !.actor = actor]
RemoveDepReq(child, parent, actor) ==
    [Req0 EXCEPT !.op = "remove_dep", !.id = child, !.parent = parent, !.actor = actor]
CommentReq(cid, id, actor) == [Req0 EXCEPT !.op = "comment", !.cid = cid, !.id = id, !.actor = actor]

\* ------------------------------------------------------ engine operations
\* Each operation maps (store, request, next statement, locals, now) to the
\* configuration after that statement.

create_issue(S, r, pc, loc, t) ==
    CASE pc = 1 ->  \* generate_id(), now(), INSERT INTO issues
           IF Exists(S, r.id) \/ ~FixesFkOk(S, r.id, r.fixes)
           THEN Ret(S, Err("Internal"))
           ELSE Goto(InsertIssueRow(S, r.id, Issue(r.issue_type, "open", r.fixes, r.assignee, t)), 2,
                     [loc EXCEPT !.ts = t])
      [] pc = 2 ->  \* INSERT INTO events ... 'created'
           IF ~Exists(S, r.id) THEN Ret(S, Err("Internal"))
           ELSE Goto(InsertEvent(S, r.id, "created", r.actor, None, loc.ts),
                     IF Len(r.deps) >= 1 THEN 3 ELSE 4, [loc EXCEPT !.i = 1])
      [] pc = 3 ->  \* for dep_id in &params.deps: INSERT INTO deps
           IF ~DepInsertOk(S, r.id, r.deps[loc.i]) THEN Ret(S, Err("Internal"))
           ELSE Goto([S EXCEPT !.deps = @ \cup {<<r.id, r.deps[loc.i]>>}],
                     IF loc.i < Len(r.deps) THEN 3 ELSE 4, [loc EXCEPT !.i = @ + 1])
      [] OTHER -> get_issue_only(S, r.id)

\* the rows the UPDATE of claim_issue matches: WHERE id = ?3 AND status = 'open'
ClaimWhereAnyStatus(S, id) == Exists(S, id)
ClaimWhere(S, id) == Exists(S, id) /\ S.issues[id].status = "open"

claim_issue(S, r, pc, loc, t) ==
    CASE pc = 1 ->  \* UPDATE issues SET status = 'in_progress', assignee, updated_at = now() WHERE id AND status = 'open'
           IF ClaimWhere(S, r.id)
           THEN Goto([S EXCEPT !.issues[r.id].status = "in_progress",
                               !.issues[r.id].assignee = Some(r.actor),
                               !.issues[r.id].updated_at = t], 2, loc)
           ELSE Goto(S, 4, loc)
      [] pc = 2 ->  \* ts = now(); INSERT INTO events ... 'claimed'
           IF ~Exists(S, r.id) THEN Ret(S, Err("Internal"))
           ELSE Goto(InsertEvent(S, r.id, "claimed", r.actor, None, t), 3, loc)
      [] pc = 3 -> get_issue_only(S, r.id)
      [] OTHER ->  \* rows == 0: get_issue_only(id)?, then AlreadyClaimed
           IF ~Exists(S, r.id) THEN Ret(S, Err("NotFound"))
           ELSE Ret(S, AlreadyClaimed(unwrap_or_default(S.issues[r.id].assignee)))

release_issue(S, r, pc, loc, t) ==
    CASE pc = 1 ->  \* get_issue_only(id)?
           IF ~Exists(S, r.id) THEN Ret(S, Err("NotFound")) ELSE Goto(S, 2, loc)
      [] pc = 2 ->  \* ts = now(); UPDATE issues SET status = 'open', assignee = NULL, updated_at
           Goto(IF Exists(S, r.id)
                THEN [S EXCEPT !.issues[r.id].status = "open",
                               !.issues[r.id].assignee = None,
                               !.issues[r.id].updated_at = t]
                ELSE S, 3, [loc EXCEPT !.ts = t])
      [] pc = 3 ->  \* INSERT INTO events ... 'released'
           IF ~Exists(S, r.id) THEN Ret(S, Err("Internal"))
           ELSE Goto(InsertEvent(S, r.id, "released", r.actor, None, loc.ts), 4, loc)
      [] OTHER -> get_issue_only(S, r.id)

\* the timestamp the auto-close of the fixes target writes: the ts taken before the first UPDATE
AutoCloseTsFresh(loc, t) == t
AutoCloseTs(loc, t) == loc.ts

\* INSERT INTO events (fixes_id, 'closed', actor, fixes_reason, ts)
AutoCloseEventSkipped(S, r, loc, ts) == S
AutoCloseEvent(S, r, loc, ts) ==
    InsertEvent(S, loc.fixes[1], "closed", r.actor, Some(FixedBy(r.id)), ts)

close_issue(S, r, pc, loc, t) ==
    CASE pc = 1 ->  \* issue = get_issue_only(id)?; the force check
           IF ~Exists(S, r.id) THEN Ret(S, Err("NotFound"))
           ELSE IF ~r.force /\ S.issues[r.id].status = "closed"
           THEN Ret(S, Err("InvalidStatusTransition"))
           ELSE Goto(S, 2, [loc EXCEPT !.fixes = S.issues[r.id].fixes])
      [] pc = 2 ->  \* ts = now(); UPDATE issues SET status = 'closed', closed_at = ts, close_reason, updated_at = ts
           Goto(IF Exists(S, r.id)
                THEN [S EXCEPT !.issues[r.id].status = "closed",
                               !.issues[r.id].closed_at = Some(t),
                               !.issues[r.id].close_reason = r.reason,
                               !.issues[r.id].updated_at = t]
                ELSE S, 3, [loc EXCEPT !.ts = t])
      [] pc = 3 ->  \* INSERT INTO events ... 'closed', detail = reason
           IF ~Exists(S, r.id) THEN Ret(S, Err("Internal"))
           ELSE Goto(InsertEvent(S, r.id, "closed", r.actor, r.reason, loc.ts),
                     IF loc.fixes # None THEN 4 ELSE 6, loc)
      [] pc = 4 ->  \* if let Some(fixes_id): UPDATE issues SET status = 'closed', ... close_reason = "fixed by {id}"
           Goto(IF Exists(S, loc.fixes[1])
                THEN [S EXCEPT !.issues[loc.fixes[1]].status = "closed",
                               !.issues[loc.fixes[1]].closed_at = Some(AutoCloseTs(loc, t)),
                               !.issues[loc.fixes[1]].close_reason = Some(FixedBy(r.id)),
                               !.issues[loc.fixes[1]].updated_at = AutoCloseTs(loc, t)]
                ELSE S, 5, loc)
      [] pc = 5 ->  \* INSERT INTO events (fixes_id, 'closed', actor, fixes_reason, ts)
           IF ~Exists(S, loc.fixes[1]) THEN Ret(S, Err("Internal"))
           ELSE Goto(AutoCloseEvent(S, r, loc, AutoCloseTs(loc, t)), 6, loc)
      [] OTHER -> get_issue_only(S, r.id)

reopen_issue(S, r, pc, loc, t) ==
    CASE pc = 1 ->  \* get_issue_only(id)?
           IF ~Exists(S, r.id) THEN Ret(S, Err("NotFound")) ELSE Goto(S, 2, loc)
      [] pc = 2 ->  \* ts = now(); UPDATE issues SET status = 'open', closed_at = NULL, close_reason = NULL, updated_at
           Goto(IF Exists(S, r.id)
                THEN [S EXCEPT !.issues[r.id].status = "open",
                               !.issues[r.id].closed_at = None,
                               !.issues[r.id].close_reason = None,
                               !.issues[r.id].updated_at = t]
                ELSE S, 3, [loc EXCEPT !.ts = t])
      [] pc = 3 ->  \* INSERT INTO events ... 'reopened', detail = reason
           IF ~Exists(S, r.id) THEN Ret(S, Err("Internal"))
           ELSE Goto(InsertEvent(S, r.id, "reopened", r.actor, r.reason, loc.ts), 4, loc)
      [] OTHER -> get_issue_only(S, r.id)

delete_issue(S, r, pc, loc, t) ==
    CASE pc = 1 ->  \* get_issue_only(id)?
           IF ~Exists(S, r.id) THEN Ret(S, Err("NotFound"))
           ELSE Goto(S, IF r.force THEN 4 ELSE 2, loc)
      [] pc = 2 ->  \* SELECT COUNT(*) FROM deps WHERE depends_on_id = id
           Goto(S, 3, [loc EXCEPT !.dependents = Cardinality({d \in S.deps : d[2] = r.id})])
      [] pc = 3 ->  \* SELECT COUNT(*) FROM comments WHERE issue_id = id; the force check
           IF loc.dependents > 0 \/ Cardinality({c \in S.comments : c.issue_id = r.id}) > 0
           THEN Ret(S, Err("DeleteRequiresForce"))
           ELSE Goto(S, 4, loc)
      [] pc = 4 ->  \* DELETE FROM deps WHERE issue_id = id OR depends_on_id = id
           Goto([S EXCEPT !.deps = {d \in @ : d[1] # r.id /\ d[2] # r.id}], 5, loc)
      [] pc = 5 ->  \* DELETE FROM comments WHERE issue_id = id
           Goto([S EXCEPT !.comments = {c \in @ : c.issue_id # r.id}], 6, loc)
      [] pc = 6 ->  \* DELETE FROM events WHERE issue_id = id
           Goto([S EXCEPT !.events = SelectSeq(@, LAMBDA e : e.issue_id # r.id)], 7, loc)
      [] OTHER ->  \* DELETE FROM issues WHERE id
           IF ~Exists(S, r.id) THEN Ret(S, Ok(None))
           ELSE IF ~IssueDeleteOk(S, r.id) THEN Ret(S, Err("Internal"))
           ELSE Ret(RemoveIssueRow(S, r.id), Ok(None))

update_issue(S, r, pc, loc, t) ==
    CASE pc = 1 ->  \* get_issue_only(id)?
           IF ~Exists(S, r.id) THEN Ret(S, Err("NotFound")) ELSE Goto(S, 2, loc)
      [] pc = 2 ->  \* ts = now(); UPDATE issues SET <given fields>, updated_at = ts WHERE id
           IF ~Exists(S, r.id) THEN Goto(S, 3, [loc EXCEPT !.ts = t])
           ELSE IF r.fields.fixes # None /\ ~FixesFkOk(S, r.id, r.fields.fixes)
           THEN Ret(S, Err("Internal"))
           ELSE Goto([S EXCEPT
                        !.issues[r.id].status = IF r.fields.status # None THEN r.fields.status[1] ELSE @,
                        !.issues[r.id].assignee =
                            IF r.fields.assignee = None THEN @
                            ELSE IF r.fields.assignee[1] = "" THEN None
                            ELSE r.fields.assignee,
                        !.issues[r.id].fixes = IF r.fields.fixes # None THEN r.fields.fixes ELSE @,
                        !.issues[r.id].updated_at = t],
                     3, [loc EXCEPT !.ts = t])
      [] pc = 3 ->  \* INSERT INTO events ... 'updated', detail = JSON of the given fields
           IF ~Exists(S, r.id) THEN Ret(S, Err("Internal"))
           ELSE Goto(InsertEvent(S, r.id, "updated", r.actor, Some(<<"json", r.fields>>), loc.ts), 4, loc)
      [] OTHER -> get_issue_only(S, r.id)

\* issues the BFS of has_cycle reaches from `from`, following issue_id -> depends_on_id
RECURSIVE Bfs(_, _, _)
Bfs(deps, queue, visited) ==
    IF queue = {} THEN visited
    ELSE LET parents == {d[2] : d \in {e \in deps : e[1] \in queue}}
             fresh == parents \ visited
         IN Bfs(deps, fresh, visited \cup fresh)

has_cycle_self_only(S, child_id, parent_id) == child_id = parent_id
has_cycle(S, child_id, parent_id) == child_id \in Bfs(S.deps, {parent_id}, {parent_id})

add_dep(S, r, pc, loc, t) ==
    CASE pc = 1 ->  \* get_issue_only(child_id)?
           IF ~Exists(S, r.id) THEN Ret(S, Err("NotFound")) ELSE Goto(S, 2, loc)
      [] pc = 2 ->  \* get_issue_only(parent_id)?
           IF ~Exists(S, r.parent) THEN Ret(S, Err("NotFound")) ELSE Goto(S, 3, loc)
      [] pc = 3 ->  \* if has_cycle(child_id, parent_id)?
           IF has_cycle(S, r.id, r.parent) THEN Ret(S, Err("CycleDetected")) ELSE Goto(S, 4, loc)
      [] pc = 4 ->  \* INSERT INTO deps
           IF ~DepInsertOk(S, r.id, r.parent) THEN Ret(S, Err("Internal"))
           ELSE Goto([S EXCEPT !.deps = @ \cup {<<r.id, r.parent>>}], 5, loc)
      [] OTHER ->  \* ts = now(); INSERT INTO events ... 'dep_added'
           IF ~Exists(S, r.id) THEN Ret(S, Err("Internal"))
           ELSE Ret(InsertEvent(S, r.id, "dep_added", r.actor, Some(DependsOn(r.parent)), t), Ok(None))

remove_dep(S, r, pc, loc, t) ==
    CASE pc = 1 ->  \* DELETE FROM deps WHERE issue_id AND depends_on_id; rows == 0 is NotFound
           IF <<r.id, r.parent>> \notin S.deps THEN Ret(S, Err("NotFound"))
           ELSE Goto([S EXCEPT !.deps = @ \ {<<r.id, r.parent>>}], 2, loc)
      [] OTHER ->  \* ts = now(); INSERT INTO events ... 'dep_removed'
           IF ~Exists(S, r.id) THEN Ret(S, Err("Internal"))
           ELSE Ret(InsertEvent(S, r.id, "dep_removed", r.actor, Some(NoLongerDependsOn(r.parent)), t), Ok(None))

\* one statement of the operation the request names
\* ---------------------------------------------------------------- queries
\* ready_issues with no filter and blocked_issues, as the sets of ids of the
\* rows they return (ORDER BY priority, created_at is not modelled)
IssueTypes == {"bug", "task", "test", "chore"}

\* issue_type IN ('task', 'test', 'chore')
ReadyTypesAny == IssueTypes
ReadyTypes == {"task", "test", "chore"}

\* SELECT d.issue_id FROM deps d JOIN issues i ON d.depends_on_id = i.id WHERE i.status != 'closed'
BlockedChildren(S) ==
    {d[1] : d \in {e \in S.deps : Exists(S, e[2]) /\ S.issues[e[2]].status # "closed"}}

ready_issues(S) ==
    {i \in DOMAIN S.issues :
        /\ S.issues[i].status = "open"
        /\ S.issues[i].issue_type \in ReadyTypes
        /\ i \notin BlockedChildren(S)}

\* SELECT DISTINCT i.* FROM issues i JOIN deps d ON d.issue_id = i.id
\*   JOIN issues blocker ON d.depends_on_id = blocker.id WHERE blocker.status != 'closed'
blocked_issues(S) ==
    {i \in DOMAIN S.issues :
        \E d \in S.deps : d[1] = i /\ Exists(S, d[2]) /\ S.issues[d[2]].status # "closed"}

\* INSERT INTO comments (id, issue_id, actor, text, created_at), the statement
\* the unit tests of db.rs run to give an issue a comment: comments.id is
\* PRIMARY KEY, comments.issue_id REFERENCES issues(id)
CommentInsertOk(S, cid, issue_id) ==
    /\ Exists(S, issue_id)
    /\ \A c \in S.comments : c.id # cid

insert_comment(S, r, pc, loc, t) ==
    IF ~CommentInsertOk(S, r.cid, r.id) THEN Ret(S, Err("Internal"))
    ELSE Ret([S EXCEPT !.comments = @ \cup {[id |-> r.cid, issue_id |-> r.id, actor |-> r.actor,
                                             text |-> "note", created_at |-> t]}], Ok(None))

Statement(S, r, pc, loc, t) ==
    CASE r.op = "create" -> create_issue(S, r, pc, loc, t)
      [] r.op = "update" -> update_issue(S, r, pc, loc, t)
      [] r.op = "claim" -> claim_issue(S, r, pc, loc, t)
      [] r.op = "release" -> release_issue(S, r, pc, loc, t)
      [] r.op = "close" -> close_issue(S, r, pc, loc, t)
      [] r.op = "reopen" -> reopen_issue(S, r, pc, loc, t)
      [] r.op = "delete" -> delete_issue(S, r, pc, loc, t)
      [] r.op = "add_dep" -> add_dep(S, r, pc, loc, t)
      [] r.op = "comment" -> insert_comment(S, r, pc, loc, t)
      [] OTHER -> remove_dep(S, r, pc, loc, t)

\* clock value statement number k reads when the second ticks before statement tickAt
NowAt(t, k, tickAt) == IF tickAt > 0 /\ k >= tickAt THEN t + 1 ELSE t

\* an operation run to its return: the store it leaves, what it returns, the
\* clock afterwards and the number of statements it executed
RECURSIVE Run(_, _, _, _, _)
Run(cfg, r, t, k, tickAt) ==
    IF cfg.pc = 0
    THEN [S |-> cfg.S, res |-> cfg.res, clock |-> NowAt(t, k - 1, tickAt), steps |-> k - 1]
    ELSE Run(Statement(cfg.S, r, cfg.pc, cfg.loc, NowAt(t, k, tickAt)), r, t, k + 1, tickAt)

RunOp(S, r, t, tickAt) == Run(Goto(S, 1, Loc0), r, t, 1, tickAt)

\* ------------------------------------------------------------ input sets
\* where the second may tick during a call that executes n statements:
\* nowhere (0), or before its statement 2..n (a tick before the first or
\* after the last statement is a Tick step before or after the call)
TickPoints(n) == {0} \cup 2..n

Statuses == {"open", "in_progress", "closed"}

DepLists(ids) == UNION {[1..n -> ids] : n \in 0..MaxDeps}

\* UpdateFields with at most one of status, assignee, fixes given
UpdateInputs ==
    {NoFields}
    \cup {[NoFields EXCEPT !.status = Some(s)] : s \in Statuses}
    \cup {[NoFields EXCEPT !.assignee = Some(a)] : a \in {"", "a1"}}
    \cup {[NoFields EXCEPT !.fixes = Some(i)] : i \in Ids}

\* what is kept of the last call: the operation, the issues it names, the actor and the force flag
CallOf(r) == [op |-> r.op, id |-> r.id, parent |-> r.parent, actor |-> r.actor, force |-> r.force]

NoCall == [req |-> CallOf(Req0), res |-> NoRes]

ClientIdle == [st |-> "idle", req |-> Req0, pc |-> 0, loc |-> Loc0, res |-> NoRes]

\* ----------------------------------------------- Spec: the engine, called
\* directly and one call at a time (as the unit tests of db.rs call it)
Init ==
    /\ db = EmptyDb
    /\ clock = 0
    /\ calls = 0
    /\ last = NoCall
    /\ lock = 0
    /\ clients = <<>>   \* no service, no clients
    /\ files = None
    /\ issued = {}
    /\ NoSgf
    /\ NoRalph
    /\ NoCalc

\* one engine call, run to its return; RunOp is evaluated once per outcome
Engine(r) ==
    /\ \E o0 \in {RunOp(db, r, clock, 0)} :
         \E tickAt \in TickPoints(o0.steps) :
            /\ tickAt > 0 => clock < MaxClock
            /\ \E o \in {IF tickAt = 0 THEN o0 ELSE RunOp(db, r, clock, tickAt)} :
                  /\ db' = o.S
                  /\ clock' = o.clock
                  /\ last' = [req |-> CallOf(r), res |-> o.res]
    /\ calls' = calls + 1
    /\ UNCHANGED <<lock, clients, files>> /\ UNCHANGED outsidePensa

Call(r) == Engine(r) /\ UNCHANGED issued

\* the caller names issues by ids it has seen (live or deleted), never the id
\* generate_id is about to draw
CreateIssue ==
    /\ calls < MaxCalls
    /\ \E id \in Ids :
          \E fixes \in {None} \cup {Some(i) : i \in Ids \ {id}}, deps \in DepLists(Ids \ {id}) :
             Call(CreateReq(id, fixes, None, deps, "a1"))

UpdateIssue ==
    /\ calls < MaxCalls
    /\ \E id \in Ids, fields \in UpdateInputs : Call(UpdateReq(id, fields, "a1"))

ClaimIssue ==
    /\ calls < MaxCalls
    /\ \E id \in Ids, actor \in Actors : Call(ClaimReq(id, actor))

ReleaseIssue ==
    /\ calls < MaxCalls
    /\ \E id \in Ids : Call(ReleaseReq(id, "a1"))

CloseIssue ==
    /\ calls < MaxCalls
    /\ \E id \in Ids, reason \in Reasons, force \in BOOLEAN : Call(CloseReq(id, reason, force, "a1"))

ReopenIssue ==
    /\ calls < MaxCalls
    /\ \E id \in Ids : Call(ReopenReq(id, None, "a1"))

DeleteIssue ==
    /\ calls < MaxCalls
    /\ \E id \in Ids, force \in BOOLEAN : Call(DeleteReq(id, force))

AddDep ==
    /\ calls < MaxCalls
    /\ \E child \in Ids, parent \in Ids : Call(AddDepReq(child, parent, "a1"))

RemoveDep ==
    /\ calls < MaxCalls
    /\ \E child \in Ids, parent \in Ids : Call(RemoveDepReq(child, parent, "a1"))

InsertComment ==
    /\ calls < MaxCalls
    /\ \E cid \in CommentIds, id \in Ids : Call(CommentReq(cid, id, "a1"))

Tick ==
    /\ clock < MaxClock
    /\ clock' = clock + 1
    /\ UNCHANGED <<db, calls, last, lock, clients, files, issued>> /\ UNCHANGED outsidePensa

Next ==
    \/ CreateIssue
    \/ UpdateIssue
    \/ ClaimIssue
    \/ ReleaseIssue
    \/ CloseIssue
    \/ ReopenIssue
    \/ DeleteIssue
    \/ AddDep
    \/ RemoveDep
    \/ Tick

Spec == Init /\ [][Next]_vars

\* ------------------------------------- SpecDaemon: the service (daemon.rs)
\* Every handler locks the Mutex around the Db, makes one engine call and
\* drops the guard when it returns.  The store starts with two open issues,
\* the second one fixing the first; requests are served within one second.
DaemonInitDb ==
    RunOp(RunOp(EmptyDb, CreateReq(1, None, None, <<>>, "a1"), 0, 0).S,
          CreateReq(2, Some(1), None, <<>>, "a1"), 0, 0).S

DaemonIds == {1, 2}

\* x-pensa-actor of client c
ActorOf(c) == CASE c = 1 -> "a1" [] c = 2 -> "a2" [] OTHER -> "a3"

DaemonRequests(c) ==
    UNION {{ClaimReq(i, ActorOf(c)), ReleaseReq(i, ActorOf(c)),
            CloseReq(i, None, FALSE, ActorOf(c)), ReopenReq(i, None, ActorOf(c))} : i \in DaemonIds}

InitDaemon ==
    /\ db = DaemonInitDb
    /\ clock = 0
    /\ calls = 0
    /\ last = NoCall
    /\ lock = 0
    /\ clients = [c \in Clients |-> ClientIdle]
    /\ files = None
    /\ issued = {}
    /\ NoSgf
    /\ NoRalph
    /\ NoCalc

\* a request arrives and its handler is about to lock the Db
Send(c) ==
    /\ clients[c].st = "idle"
    /\ \E r \in DaemonRequests(c) : clients' = [clients EXCEPT ![c].st = "waiting", ![c].req = r]
    /\ UNCHANGED <<db, clock, calls, last, lock, files, issued>> /\ UNCHANGED outsidePensa

\* db.lock().unwrap()
AcquireUnguarded(c) ==
    /\ clients[c].st = "waiting"
    /\ lock' = c
    /\ clients' = [clients EXCEPT ![c].st = "running", ![c].pc = 1, ![c].loc = Loc0]
    /\ UNCHANGED <<db, clock, calls, last, files, issued>> /\ UNCHANGED outsidePensa

Acquire(c) ==
    /\ clients[c].st = "waiting"
    /\ lock = 0
    /\ lock' = c
    /\ clients' = [clients EXCEPT ![c].st = "running", ![c].pc = 1, ![c].loc = Loc0]
    /\ UNCHANGED <<db, clock, calls, last, files, issued>> /\ UNCHANGED outsidePensa

\* the handler's engine call executes its next statement
Exec(c) ==
    /\ clients[c].st = "running"
    /\ clients[c].pc # 0
    /\ LET n == Statement(db, clients[c].req, clients[c].pc, clients[c].loc, clock)
       IN /\ db' = n.S
          /\ clients' = [clients EXCEPT ![c].pc = n.pc, ![c].loc = n.loc, ![c].res = n.res]
    /\ UNCHANGED <<clock, calls, last, lock, files, issued>> /\ UNCHANGED outsidePensa

\* the handler returns: the guard is dropped and the response goes out
Respond(c) ==
    /\ clients[c].st = "running"
    /\ clients[c].pc = 0
    /\ clients' = [clients EXCEPT ![c].st = "done"]
    /\ lock' = 0
    /\ UNCHANGED <<db, clock, calls, last, files, issued>> /\ UNCHANGED outsidePensa

NextDaemon ==
    \/ \E c \in Clients : Send(c)
    \/ \E c \in Clients : Acquire(c)
    \/ \E c \in Clients : Exec(c)
    \/ \E c \in Clients : Respond(c)

SpecDaemon == InitDaemon /\ [][NextDaemon]_vars

\* --------------------------------- SpecDelete: the engine with comments,
\* for delete_issue and what it cascades to
NextDelete ==
    \/ CreateIssue
    \/ AddDep
    \/ InsertComment
    \/ DeleteIssue
    \/ Tick

SpecDelete == Init /\ [][NextDelete]_vars

\* ------------------------------- SpecReady: the engine with typed issues,
\* for the queries that select by issue_type, status and dep parents.  The
\* queries read no timestamp: all calls are made within one second.
InitReady ==
    /\ db = EmptyDb
    /\ clock = MaxClock
    /\ calls = 0
    /\ last = NoCall
    /\ lock = 0
    /\ clients = <<>>
    /\ files = None
    /\ issued = {}
    /\ NoSgf
    /\ NoRalph
    /\ NoCalc

CreateTyped ==
    /\ calls < MaxCalls
    /\ \E id \in Ids, issue_type \in IssueTypes :
          \E deps \in DepLists(Ids \ {id}) : Call(CreateTypedReq(id, issue_type, deps, "a1"))

NextReady ==
    \/ CreateTyped
    \/ AddDep
    \/ RemoveDep
    \/ ClaimIssue
    \/ CloseIssue
    \/ ReopenIssue

SpecReady == InitReady /\ [][NextReady]_vars

\* ------------------------- SpecExport: the engine with its JSONL files.
\* export_jsonl and import_jsonl are modelled from spec.md (Tracker Engine,
\* "export_jsonl()" and "import_jsonl()"): their code is called by daemon.rs
\* and by the tests but is not part of db.rs.
KeyLeq(a, b) == a[1] < b[1] \/ (a[1] = b[1] /\ a[2] <= b[2])

\* the lines of one file, in the order of their keys
RECURSIVE Sorted(_)
Sorted(rows) ==
    IF rows = {} THEN <<>>
    ELSE LET m == CHOOSE x \in rows : \A y \in rows : KeyLeq(x.key, y.key)
         IN  <<m.line>> \o Sorted(rows \ {m})

\* one JSON object per issue, with the entity's fields
IssueLine(S, i) ==
    [id |-> i, issue_type |-> S.issues[i].issue_type, status |-> S.issues[i].status,
     fixes |-> S.issues[i].fixes, assignee |-> S.issues[i].assignee,
     created_at |-> S.issues[i].created_at, updated_at |-> S.issues[i].updated_at,
     closed_at |-> S.issues[i].closed_at, close_reason |-> S.issues[i].close_reason]

DepLineSwapped(d) == [issue_id |-> d[2], depends_on_id |-> d[1]]
DepLine(d) == [issue_id |-> d[1], depends_on_id |-> d[2]]

\* issues by created_at, deps by (issue_id, depends_on_id), comments by
\* created_at, events by sequence
export_jsonl(S) ==
    [issues |-> Sorted({[key |-> <<S.issues[i].created_at, i>>, line |-> IssueLine(S, i)] :
                           i \in DOMAIN S.issues}),
     deps |-> Sorted({[key |-> d, line |-> DepLine(d)] : d \in S.deps}),
     comments |-> Sorted({[key |-> <<c.created_at, c.id>>, line |-> c] : c \in S.comments}),
     events |-> S.events]

Lines(f) == {f[k] : k \in DOMAIN f}

\* the row of an issue line
IssueRow(l) ==
    [issue_type |-> l.issue_type, status |-> l.status, fixes |-> l.fixes, assignee |-> l.assignee,
     created_at |-> l.created_at, updated_at |-> l.updated_at,
     closed_at |-> l.closed_at, close_reason |-> l.close_reason]

\* the staging representation of the four files, the event sequence re-seeded
Staged(F) ==
    [issues |-> [i \in {l.id : l \in Lines(F.issues)} |->
                    IssueRow(CHOOSE l \in Lines(F.issues) : l.id = i)],
     deps |-> {<<l.issue_id, l.depends_on_id>> : l \in Lines(F.deps)},
     comments |-> Lines(F.comments),
     events |-> F.events,
     seq |-> IF F.events = <<>> THEN 0 ELSE F.events[Len(F.events)].id]

\* referential integrity of the staged tables
StagedOk(F, T) ==
    /\ Cardinality(DOMAIN T.issues) = Len(F.issues)
    /\ \A i \in DOMAIN T.issues : T.issues[i].fixes = None \/ T.issues[i].fixes[1] \in DOMAIN T.issues
    /\ \A d \in T.deps : d[1] \in DOMAIN T.issues /\ d[2] \in DOMAIN T.issues /\ d[1] # d[2]
    /\ \A c \in T.comments : c.issue_id \in DOMAIN T.issues
    /\ \A k \in DOMAIN T.events : T.events[k].issue_id \in DOMAIN T.issues

\* rebuilds the database from the files, or leaves it as it is
import_jsonl(S, F) ==
    IF F = None THEN [S |-> S, res |-> Err("Internal")]
    ELSE LET T == Staged(F[1])
         IN  IF StagedOk(F[1], T) THEN [S |-> T, res |-> Ok(None)]
             ELSE [S |-> S, res |-> Err("Internal")]

\* two issues, the second depending on the first, and a comment on the first;
\* the calls that follow are made within one later second
ExportInitDb ==
    RunOp(RunOp(RunOp(EmptyDb, CreateReq(1, None, None, <<>>, "a1"), 0, 0).S,
                CreateReq(2, None, None, <<1>>, "a1"), 0, 0).S,
          CommentReq(1, 1, "a1"), 0, 0).S

InitExport ==
    /\ db = ExportInitDb
    /\ clock = MaxClock
    /\ calls = 0
    /\ last = NoCall
    /\ lock = 0
    /\ clients = <<>>
    /\ files = None
    /\ issued = {}
    /\ NoSgf
    /\ NoRalph
    /\ NoCalc

ExportJsonl ==
    /\ calls < MaxCalls
    /\ files' = Some(export_jsonl(db))
    /\ last' = [req |-> CallOf([Req0 EXCEPT !.op = "export"]), res |-> Ok(None)]
    /\ calls' = calls + 1
    /\ UNCHANGED <<db, clock, lock, clients, issued>> /\ UNCHANGED outsidePensa

ImportJsonl ==
    /\ calls < MaxCalls
    /\ \E o \in {import_jsonl(db, files)} :
          /\ db' = o.S
          /\ last' = [req |-> CallOf([Req0 EXCEPT !.op = "import"]), res |-> o.res]
    /\ calls' = calls + 1
    /\ UNCHANGED <<clock, lock, clients, files, issued>> /\ UNCHANGED outsidePensa

NextExport ==
    \/ CreateIssue
    \/ ClaimIssue
    \/ CloseIssue
    \/ DeleteIssue
    \/ ExportJsonl
    \/ ImportJsonl

SpecExport == InitExport /\ [][NextExport]_vars

\* ------------------------- SpecIds: the engine with the ids it has handed
\* out.  generate_id keeps the last 32 bits of a UUIDv7, which are random:
\* any id may be drawn, whatever has been drawn before.
CreateAndRecord ==
    /\ calls < MaxCalls
    /\ \E id \in Ids :
          /\ \E deps \in DepLists(Ids \ {id}) : Engine(CreateReq(id, None, None, deps, "a1"))
          /\ issued' = IF last'.res.kind = "Ok" THEN issued \cup {id} ELSE issued

NextIds ==
    \/ CreateAndRecord
    \/ CloseIssue
    \/ DeleteIssue
    \/ Tick

SpecIds == Init /\ [][NextIds]_vars

\* ===================================================== sgf: the loop
\* orchestrator.  SpecSgf runs two sgf processes in one project, each
\* executing orchestrate::run statement by statement, with the harness each
\* spawns and the thread that tees the harness's stdout.
Orchs == {"o1", "o2"}

\* generate_loop_id: "<stage>-<timestamp to the second>"; two launches of a
\* stage within one second draw the same id
LoopIds == {"build-T1", "build-T2"}

\* ExitStatus of the harness
NotSpawned == [kind |-> "none", n |-> 0]
Running == [kind |-> "running", n |-> 0]
Exited(c) == [kind |-> "exited", n |-> c]
Signaled(sig) == [kind |-> "signaled", n |-> sig]
ExitCodes == {0, 2}

\* ExitStatus::code()
status_code(st) == IF st.kind = "exited" THEN Some(st.n) ELSE None

\* Option<i32>::unwrap_or
unwrap_or_zero(opt, d) == IF opt = None THEN 0 ELSE opt[1]
unwrap_or(opt, d) == IF opt = None THEN d ELSE opt[1]

RetOk(code) == Some([ok |-> TRUE, code |-> code])
RetErr == Some([ok |-> FALSE, code |-> 0])

\* libc::kill(pid, 0) == 0: an sgf process is alive from its start until it
\* returns from run; "live" is the pid of a process that outlives the runs
is_pid_alive(O, pid) == pid = "live" \/ (pid \in Orchs /\ O[pid].pc \notin {"off", "done"})

\* the *.pid files whose contents parse as a pid, as (loop_id, pid)
list_pid_files(dir) == {<<f, dir[f]>> : f \in {g \in DOMAIN dir : dir[g] # "junk"}}

all_alive(O, entries) == \A e \in entries : is_pid_alive(O, e[2])
any_alive(O, entries) == \E e \in entries : is_pid_alive(O, e[2])

write_pid_file(dir, loop_id, pid) ==
    [f \in DOMAIN dir \cup {loop_id} |-> IF f = loop_id THEN pid ELSE dir[f]]

remove_pid_file(dir, loop_id) == [f \in DOMAIN dir \ {loop_id} |-> dir[f]]

\* for (loop_id, _) in &pid_entries { remove_pid_file(root, loop_id) }
remove_entries(dir, entries) == [f \in DOMAIN dir \ {e[1] : e \in entries} |-> dir[f]]

Outcomes == {"ok", "failed"}

\* where pre_launch_recovery goes after a cleanup command with this outcome
AfterCommandAbort(outcome, next) == IF outcome = "failed" THEN "done" ELSE next
AfterCommand(outcome, next) == next

OrchOff(afk) ==
    [pc |-> "off", afk |-> afk, loop_id |-> "", seen |-> {}, pid_entries |-> {},
     any_alive |-> FALSE, ran |-> <<>>, interrupted |-> FALSE, hit |-> FALSE, child |-> NotSpawned,
     term |-> FALSE, tee |-> "none", ret |-> None]

\* the directory before the first launch: any of a file left by a dead
\* process, the file of a live process, and a file that holds no pid
OldFiles == [stale |-> "dead", other |-> "live", note |-> "junk"]

InitSgf ==
    /\ db = EmptyDb
    /\ clock = 0
    /\ calls = 0
    /\ last = NoCall
    /\ lock = 0
    /\ clients = <<>>
    /\ files = None
    /\ issued = {}
    /\ \E names \in SUBSET DOMAIN OldFiles : run_dir = [f \in names |-> OldFiles[f]]
    /\ tree = [modified |-> TRUE, untracked |-> TRUE]
    /\ \E afk \in BOOLEAN : orchs = [p \in Orchs |-> OrchOff(afk)]
    /\ NoRalph
    /\ NoCalc

Me(p) == orchs[p]
Become(p, o) == orchs' = [orchs EXCEPT ![p] = o]

\* run returns and the process exits: only what it returned is kept
Exit(o, ret) == [OrchOff(o.afk) EXCEPT !.pc = "done", !.ret = ret]

\* pre_launch_recovery returns Ok(())
Return(o) == [o EXCEPT !.pc = "daemon"]

\* the locals of pre_launch_recovery are gone once ensure_daemon has run
Forget(o) == [o EXCEPT !.seen = {}, !.pid_entries = {}, !.any_alive = FALSE, !.ran = <<>>]

\* orchestrate::run, line 77: the process starts and draws its loop id
Launch(p) ==
    /\ Me(p).pc = "off"
    /\ \E id \in LoopIds : Become(p, [Me(p) EXCEPT !.pc = "list", !.loop_id = id])
    /\ UNCHANGED <<run_dir, tree>>
    /\ UNCHANGED outsideSgf

\* pre_launch_recovery: list_pid_files(root)
ListPidFiles(p) ==
    /\ Me(p).pc = "list"
    /\ \E es \in {list_pid_files(run_dir)} :
          Become(p, IF es = {} THEN Return([Me(p) EXCEPT !.seen = DOMAIN run_dir])
                    ELSE [Me(p) EXCEPT !.seen = DOMAIN run_dir, !.pid_entries = es, !.pc = "check"])
    /\ UNCHANGED <<run_dir, tree>>
    /\ UNCHANGED outsideSgf

\* pre_launch_recovery: any_alive
CheckAlive(p) ==
    /\ Me(p).pc = "check"
    /\ \E a \in {any_alive(orchs, Me(p).pid_entries)} :
          Become(p, IF a THEN Return([Me(p) EXCEPT !.any_alive = TRUE])
                    ELSE [Me(p) EXCEPT !.pc = "remove"])
    /\ UNCHANGED <<run_dir, tree>>
    /\ UNCHANGED outsideSgf

\* pre_launch_recovery: all PIDs are stale, remove the PID files
RemoveStale(p) ==
    /\ Me(p).pc = "remove"
    /\ run_dir' = remove_entries(run_dir, Me(p).pid_entries)
    /\ Become(p, [Me(p) EXCEPT !.pc = "checkout"])
    /\ UNCHANGED tree
    /\ UNCHANGED outsideSgf

Ran(o, cmd, outcome) == [c \in DOMAIN o.ran \cup {cmd} |-> IF c = cmd THEN outcome ELSE o.ran[c]]

\* git checkout -- .
GitCheckout(p) ==
    /\ Me(p).pc = "checkout"
    /\ \E outcome \in Outcomes :
          /\ tree' = IF outcome = "ok" THEN [tree EXCEPT !.modified = FALSE] ELSE tree
          /\ Become(p, [Me(p) EXCEPT !.ran = Ran(Me(p), "checkout", outcome),
                                     !.pc = AfterCommand(outcome, "clean")])
    /\ UNCHANGED run_dir
    /\ UNCHANGED outsideSgf

\* git clean -fd
GitClean(p) ==
    /\ Me(p).pc = "clean"
    /\ \E outcome \in Outcomes :
          /\ tree' = IF outcome = "ok" THEN [tree EXCEPT !.untracked = FALSE] ELSE tree
          /\ Become(p, [Me(p) EXCEPT !.ran = Ran(Me(p), "clean", outcome),
                                     !.pc = AfterCommand(outcome, "doctor")])
    /\ UNCHANGED run_dir
    /\ UNCHANGED outsideSgf

\* pn doctor --fix
PnDoctor(p) ==
    /\ Me(p).pc = "doctor"
    /\ \E outcome \in Outcomes :
          Become(p, [Me(p) EXCEPT !.ran = Ran(Me(p), "doctor", outcome),
                                  !.pc = AfterCommand(outcome, "daemon")])
    /\ UNCHANGED <<run_dir, tree>>
    /\ UNCHANGED outsideSgf

\* recovery::ensure_daemon(root)?
EnsureDaemon(p) ==
    /\ Me(p).pc = "daemon"
    /\ \/ Become(p, [Forget(Me(p)) EXCEPT !.pc = "write_pid"])
       \/ Become(p, Exit(Me(p), RetErr))
    /\ UNCHANGED <<run_dir, tree>>
    /\ UNCHANGED outsideSgf

\* loop_mgmt::write_pid_file(root, &loop_id)?
WritePidFile(p) ==
    /\ Me(p).pc = "write_pid"
    /\ run_dir' = write_pid_file(run_dir, Me(p).loop_id, p)
    /\ Become(p, [Me(p) EXCEPT !.pc = "register"])
    /\ UNCHANGED tree
    /\ UNCHANGED outsideSgf

\* flag::register(SIGINT, ..)?, flag::register(SIGTERM, ..)?
Register(p) ==
    /\ Me(p).pc = "register"
    /\ \/ Become(p, [Me(p) EXCEPT !.pc = "spawn"])
       \/ Become(p, Exit(Me(p), RetErr))
    /\ UNCHANGED <<run_dir, tree>>
    /\ UNCHANGED outsideSgf

\* run_afk / run_interactive: Command::new(binary)..spawn(), and in afk
\* mode the thread running tee_output; a failure returns Err from run
Spawn(p) ==
    /\ Me(p).pc = "spawn"
    /\ \/ Become(p, [Me(p) EXCEPT !.child = Running, !.pc = "poll",
                                  !.tee = IF Me(p).afk THEN "reading" ELSE "none"])
       \/ Become(p, Exit(Me(p), RetErr))
    /\ UNCHANGED <<run_dir, tree>>
    /\ UNCHANGED outsideSgf

\* the poll loop: child.try_wait(), then interrupted.load()
Poll(p) ==
    /\ Me(p).pc = "poll"
    /\ \/ /\ Me(p).child.kind # "running"
          /\ Become(p, [Me(p) EXCEPT !.ret = RetOk(unwrap_or(status_code(Me(p).child), 1)),
                                     !.pc = IF Me(p).afk THEN "join" ELSE "remove_pid"])
       \/ /\ Me(p).child.kind = "running"
          /\ Me(p).interrupted
          /\ Become(p, [Me(p) EXCEPT !.pc = "kill"])
    /\ UNCHANGED <<run_dir, tree>>
    /\ UNCHANGED outsideSgf

\* kill_child: libc::kill(pid, SIGTERM)
KillChild(p) ==
    /\ Me(p).pc = "kill"
    /\ Become(p, [Me(p) EXCEPT !.term = TRUE, !.pc = "wait"])
    /\ UNCHANGED <<run_dir, tree>>
    /\ UNCHANGED outsideSgf

\* let _ = child.wait(); then Ok(130)
WaitChild(p) ==
    /\ Me(p).pc = "wait"
    /\ Me(p).child.kind # "running"
    /\ Become(p, [Me(p) EXCEPT !.ret = RetOk(130),
                               !.pc = IF Me(p).afk THEN "join" ELSE "remove_pid"])
    /\ UNCHANGED <<run_dir, tree>>
    /\ UNCHANGED outsideSgf

\* let _ = tee_handle.join()
JoinTee(p) ==
    /\ Me(p).pc = "join"
    /\ Me(p).tee \in {"eof", "failed"}
    /\ Become(p, [Me(p) EXCEPT !.tee = "joined", !.pc = "remove_pid"])
    /\ UNCHANGED <<run_dir, tree>>
    /\ UNCHANGED outsideSgf

\* loop_mgmt::remove_pid_file(root, &loop_id); Ok(exit_code)
RemovePidFile(p) ==
    /\ Me(p).pc = "remove_pid"
    /\ run_dir' = remove_pid_file(run_dir, Me(p).loop_id)
    /\ Become(p, Exit(Me(p), Me(p).ret))
    /\ UNCHANGED tree
    /\ UNCHANGED outsideSgf

\* SIGINT or SIGTERM is delivered to the sgf process once its handlers are installed
Registered == {"spawn", "poll", "kill", "wait", "join", "remove_pid"}

Signal(p) ==
    /\ Me(p).pc \in Registered
    /\ ~Me(p).interrupted
    /\ Become(p, [Me(p) EXCEPT !.interrupted = TRUE, !.hit = (Me(p).child.kind = "running")])
    /\ UNCHANGED <<run_dir, tree>>
    /\ UNCHANGED outsideSgf

\* the harness ends: it exits with a code, or a signal kills it (SIGKILL,
\* or the SIGTERM of kill_child)
HarnessEnds(p) ==
    /\ Me(p).child.kind = "running"
    /\ \E st \in {Exited(c) : c \in ExitCodes} \cup {Signaled(9)}
                 \cup (IF Me(p).term THEN {Signaled(15)} ELSE {}) :
          Become(p, [Me(p) EXCEPT !.child = st])
    /\ UNCHANGED <<run_dir, tree>>
    /\ UNCHANGED outsideSgf

\* tee_output: a line is read and a writeln! (or the read) fails: the thread
\* returns the error and drops the read end of the harness's stdout
TeeFails(p) ==
    /\ Me(p).tee = "reading"
    /\ Me(p).child.kind = "running"
    /\ Become(p, [Me(p) EXCEPT !.tee = "failed"])
    /\ UNCHANGED <<run_dir, tree>>
    /\ UNCHANGED outsideSgf

\* tee_output: the harness has ended, lines() reaches end of file
TeeEof(p) ==
    /\ Me(p).tee = "reading"
    /\ Me(p).child.kind # "running"
    /\ Become(p, [Me(p) EXCEPT !.tee = "eof"])
    /\ UNCHANGED <<run_dir, tree>>
    /\ UNCHANGED outsideSgf

\* the harness writes to its stdout after the read end was dropped: println!
\* panics (exit code 101), or SIGPIPE kills a harness that does not ignore it
BrokenPipe(p) ==
    /\ Me(p).tee = "failed"
    /\ Me(p).child.kind = "running"
    /\ \E st \in {Exited(101), Signaled(13)} :
          Become(p, [Me(p) EXCEPT !.child = st])
    /\ UNCHANGED <<run_dir, tree>>
    /\ UNCHANGED outsideSgf

NextSgf ==
    \E p \in Orchs :
       \/ Launch(p)
       \/ ListPidFiles(p)
       \/ CheckAlive(p)
       \/ RemoveStale(p)
       \/ GitCheckout(p)
       \/ GitClean(p)
       \/ PnDoctor(p)
       \/ EnsureDaemon(p)
       \/ WritePidFile(p)
       \/ Register(p)
       \/ Spawn(p)
       \/ Poll(p)
       \/ KillChild(p)
       \/ WaitChild(p)
       \/ JoinTee(p)
       \/ RemovePidFile(p)
       \/ Signal(p)
       \/ HarnessEnds(p)
       \/ TeeFails(p)
       \/ TeeEof(p)
       \/ BrokenPipe(p)

SpecSgf == InitSgf /\ [][NextSgf]_vars

\* ================================================== ralph: the harness.
\* SpecRalph runs one ralph process from its argument vector to its exit,
\* with the child it runs in each iteration and what the child does in the
\* working directory.
MaxN == 2          \* the iterations argument goes up to this
MaxCommits == 1    \* commits a child makes on top of the first HEAD

\* orchestrate.rs, build_ralph_args: "--max-iterations", "30"
SGF_MAX_ITERATIONS == 30
SENTINEL_MAX_DEPTH == 2
Depths == 0..(SENTINEL_MAX_DEPTH + 1)

\* an argument: a flag, or a value with the number it parses to (-1 when it is no number)
Flag(name) == [k |-> "flag", s |-> name, n |-> -1]
Str(text) == [k |-> "val", s |-> text, n |-> -1]
Num(n) == [k |-> "val", s |-> "", n |-> n]
BoolArg(b) == Str(IF b THEN "true" ELSE "false")

\* sgf: build_ralph_args(config, loop_id, prompt_path)
build_ralph_args(afk, no_push, iterations) ==
    (IF afk THEN <<Flag("-a")>> ELSE <<>>)
    \o <<Flag("--loop-id"), Str("build-T1"),
         Flag("--template"), Str("ralph-sandbox:latest"),
         Flag("--auto-push"), BoolArg(~no_push),
         Flag("--max-iterations"), Num(SGF_MAX_ITERATIONS),
         Num(iterations), Str("prompt.md")>>

\* the same invocation typed by hand, without --loop-id
hand_args(afk, auto_push, max, iterations) ==
    (IF afk THEN <<Flag("--afk")>> ELSE <<>>)
    \o <<Flag("--auto-push"), BoolArg(auto_push),
         Flag("--max-iterations"), Num(max),
         Num(iterations), Str("prompt.md")>>

SgfArgs == {build_ralph_args(afk, no_push, n) : afk \in BOOLEAN, no_push \in BOOLEAN, n \in 0..MaxN}
HandArgs == {hand_args(afk, push, max, n) : afk \in BOOLEAN, push \in BOOLEAN, max \in 1..MaxN, n \in 0..MaxN}

\* struct Cli, with the defaults of its #[arg] attributes
CliDefault ==
    [afk |-> FALSE, iterations |-> 1, prompt |-> "prompt.md", template |-> "tauri-sandbox:latest",
     max_iterations |-> 100, auto_push |-> TRUE, npos |-> 0]

\* the options of Cli that take a value
ValueFlags == {"--template", "--max-iterations", "--auto-push", "--command"}

\* parse_bool
parse_bool(text) ==
    IF text \in {"true", "1", "yes"} THEN Some(TRUE)
    ELSE IF text \in {"false", "0", "no"} THEN Some(FALSE)
    ELSE None

\* Cli::parse(): None when clap rejects the vector (usage error, exit code 2)
RECURSIVE ParseFrom(_, _, _)
ParseFrom(argv, k, cli) ==
    IF k > Len(argv) THEN Some(cli)
    ELSE LET a == argv[k] IN
         IF a.k = "flag" /\ a.s \in {"-a", "--afk"}
         THEN ParseFrom(argv, k + 1, [cli EXCEPT !.afk = TRUE])
         ELSE IF a.k = "flag" /\ a.s \in ValueFlags
         THEN IF k + 1 > Len(argv) \/ argv[k + 1].k # "val" THEN None
              ELSE LET v == argv[k + 1] IN
                   CASE a.s = "--template" -> ParseFrom(argv, k + 2, [cli EXCEPT !.template = v.s])
                     [] a.s = "--max-iterations" ->
                           IF v.n < 0 THEN None
                           ELSE ParseFrom(argv, k + 2, [cli EXCEPT !.max_iterations = v.n])
                     [] a.s = "--auto-push" ->
                           IF parse_bool(v.s) = None THEN None
                           ELSE ParseFrom(argv, k + 2, [cli EXCEPT !.auto_push = parse_bool(v.s)[1]])
                     [] OTHER -> ParseFrom(argv, k + 2, cli)
         ELSE IF a.k = "flag" THEN None
         ELSE IF cli.npos = 0
         THEN IF a.n < 0 THEN None
              ELSE ParseFrom(argv, k + 1, [cli EXCEPT !.iterations = a.n, !.npos = 1])
         ELSE IF cli.npos = 1
         THEN ParseFrom(argv, k + 1, [cli EXCEPT !.prompt = a.s, !.npos = 2])
         ELSE None

Cli_parse(argv) == ParseFrom(argv, 1, CliDefault)

\* main, lines 107-115: the iteration budget
unclamped(iterations, max_iterations) == iterations
clamp(iterations, max_iterations) ==
    IF iterations > max_iterations THEN max_iterations ELSE iterations

\* find_sentinel(dir, max_depth): the depths at which the search can find the
\* file; the directory itself is looked at first, the others in directory order
find_sentinel_here(sentinels, max_depth) == sentinels \cap {0}
find_sentinel(sentinels, max_depth) ==
    IF 0 \in sentinels THEN {0} ELSE {d \in sentinels : d <= max_depth}

\* for i in 1..=iterations
more_before_last(i, iterations) == i + 1 < iterations
more(i, iterations) == i < iterations

\* auto_push_if_changed: whether git push is run
pushes_if_differ(auto_push, before, after) ==
    auto_push /\ before # None /\ after # None /\ before # after

RalphStart(argv) ==
    [pc |-> "parse", argv |-> argv, by_sgf |-> argv \in SgfArgs, cli |-> None, iterations |-> 0,
     i |-> 0, runs |-> 0, head_before |-> None, interrupted |-> FALSE, hit |-> 0,
     child |-> "none", killed |-> FALSE, found |-> -1, exit |-> -1]

InitRalph ==
    /\ db = EmptyDb
    /\ clock = 0
    /\ calls = 0
    /\ last = NoCall
    /\ lock = 0
    /\ clients = <<>>
    /\ files = None
    /\ issued = {}
    /\ NoSgf
    /\ NoCalc
    /\ \E argv \in SgfArgs \cup HandArgs : ralph = RalphStart(argv)
    /\ \E head \in {None, Some(0)}, old \in {{}, {SENTINEL_MAX_DEPTH}, {1, SENTINEL_MAX_DEPTH}} :
          cwd = [sentinels |-> old, old |-> old, head |-> head, pushes |-> 0, group |-> FALSE]

\* fs::remove_file(path): the file is gone, and with it its age
remove_file(c, d) == [c EXCEPT !.sentinels = @ \ {d}, !.old = @ \ {d}]

ExitWith(code) == ralph' = [ralph EXCEPT !.pc = "exited", !.exit = code]

\* let cli = Cli::parse(); the handlers; the iteration budget
Parse ==
    /\ ralph.pc = "parse"
    /\ \E c \in {Cli_parse(ralph.argv)} :
          IF c = None THEN ralph' = [ralph EXCEPT !.pc = "exited", !.exit = 2, !.argv = <<>>]
          ELSE ralph' = [ralph EXCEPT !.pc = "clean", !.cli = c, !.argv = <<>>,
                                      !.iterations = clamp(c[1].iterations, c[1].max_iterations)]
    /\ UNCHANGED cwd
    /\ UNCHANGED outsideRalph

\* remove_sentinel() before the loop
RemoveSentinel ==
    /\ ralph.pc = "clean"
    /\ \E f \in {find_sentinel(cwd.sentinels, SENTINEL_MAX_DEPTH)} :
          IF f = {} THEN UNCHANGED cwd
          ELSE \E d \in f : cwd' = remove_file(cwd, d)
    /\ ralph' = [ralph EXCEPT !.pc = IF ralph.iterations >= 1 THEN "iter" ELSE "finish", !.i = 1]
    /\ UNCHANGED outsideRalph

\* the head of the loop body: git_head(), then the child is spawned
StartIteration ==
    /\ ralph.pc = "iter"
    /\ ralph' = [ralph EXCEPT !.pc = "run", !.head_before = cwd.head, !.child = "running",
                              !.runs = @ + 1]
    /\ UNCHANGED cwd
    /\ UNCHANGED outsideRalph

\* run_afk: the poll loop kills the child when it reads the flag, and
\* returns when the child's output ends; run_interactive: status() returns
\* when the child has exited
RunReturns ==
    /\ ralph.pc = "run"
    /\ \/ /\ ralph.cli[1].afk
          /\ ralph.interrupted
          /\ ralph' = [ralph EXCEPT !.pc = "after", !.child = "ended",
                                    !.killed = (ralph.child = "running")]
       \/ /\ ralph.child = "ended"
          /\ ralph' = [ralph EXCEPT !.pc = "after"]
    /\ UNCHANGED cwd
    /\ UNCHANGED outsideRalph

\* main, lines 137-150
AfterRun ==
    /\ ralph.pc = "after"
    /\ IF ralph.interrupted THEN ExitWith(130) /\ UNCHANGED cwd
       ELSE \E f \in {find_sentinel(cwd.sentinels, SENTINEL_MAX_DEPTH)} :
               IF f = {} THEN ralph' = [ralph EXCEPT !.pc = "sleep"] /\ UNCHANGED cwd
               ELSE \E d \in f : /\ cwd' = remove_file(cwd, d)
                                 /\ ralph' = [ralph EXCEPT !.pc = "complete", !.found = d]
    /\ UNCHANGED outsideRalph

Push(c) == IF pushes_if_differ(ralph.cli[1].auto_push, ralph.head_before, c.head)
           THEN [c EXCEPT !.pushes = @ + 1] ELSE c

\* auto_push_if_changed(&cli, &head_before); std::process::exit(0)
Complete ==
    /\ ralph.pc = "complete"
    /\ cwd' = Push(cwd)
    /\ ExitWith(0)
    /\ UNCHANGED outsideRalph

\* main, lines 152-168: the pause, the second look at the flag, the push
Continue ==
    /\ ralph.pc = "sleep"
    /\ IF ralph.interrupted THEN ExitWith(130) /\ UNCHANGED cwd
       ELSE /\ cwd' = Push(cwd)
            /\ ralph' = IF more(ralph.i, ralph.iterations)
                        THEN [ralph EXCEPT !.pc = "iter", !.i = @ + 1]
                        ELSE [ralph EXCEPT !.pc = "finish"]
    /\ UNCHANGED outsideRalph

\* main, lines 170-175
Finish ==
    /\ ralph.pc = "finish"
    /\ \E f \in {find_sentinel(cwd.sentinels, SENTINEL_MAX_DEPTH)} :
          IF f = {} THEN UNCHANGED cwd
          ELSE \E d \in f : cwd' = remove_file(cwd, d)
    /\ ExitWith(2)
    /\ UNCHANGED outsideRalph

\* SIGINT or SIGTERM is delivered to ralph once the handlers are registered;
\* hit is the run during which it came (0: no child was running)
RalphSignal ==
    /\ ralph.pc \notin {"parse", "exited"}
    /\ ~ralph.interrupted
    /\ ralph' = [ralph EXCEPT !.interrupted = TRUE,
                              !.hit = IF ralph.child = "running" THEN ralph.runs ELSE 0]
    /\ UNCHANGED cwd
    /\ UNCHANGED outsideRalph

\* the child writes the sentinel somewhere under the working directory
ChildWritesSentinel ==
    /\ ralph.child = "running"
    /\ \E d \in Depths : /\ d \notin cwd.sentinels \/ d \in cwd.old
                         /\ cwd' = [cwd EXCEPT !.sentinels = @ \cup {d}, !.old = @ \ {d}]
    /\ UNCHANGED ralph
    /\ UNCHANGED outsideRalph

\* the child commits
ChildCommits ==
    /\ ralph.child = "running"
    /\ IF cwd.head = None THEN TRUE ELSE cwd.head[1] < MaxCommits
    /\ cwd' = [cwd EXCEPT !.head = IF @ = None THEN Some(0) ELSE Some(@[1] + 1)]
    /\ UNCHANGED ralph
    /\ UNCHANGED outsideRalph

\* the child starts a process of its own, in its process group
ChildForks ==
    /\ ralph.child = "running"
    /\ ~cwd.group
    /\ cwd' = [cwd EXCEPT !.group = TRUE]
    /\ UNCHANGED ralph
    /\ UNCHANGED outsideRalph

\* the child exits and its output ends
ChildEnds ==
    /\ ralph.child = "running"
    /\ ralph' = [ralph EXCEPT !.child = "ended"]
    /\ UNCHANGED cwd
    /\ UNCHANGED outsideRalph

RalphStep ==
    \/ Parse
    \/ RemoveSentinel
    \/ StartIteration
    \/ RunReturns
    \/ AfterRun
    \/ Complete
    \/ Continue
    \/ Finish

NextRalph ==
    \/ Parse
    \/ RemoveSentinel
    \/ StartIteration
    \/ RunReturns
    \/ AfterRun
    \/ Complete
    \/ Continue
    \/ Finish
    \/ RalphSignal
    \/ ChildWritesSentinel
    \/ ChildCommits
    \/ ChildForks
    \/ ChildEnds

SpecRalph == InitRalph /\ [][NextRalph]_vars

\* ralph is scheduled, and every child run ends
SpecRalphFair == SpecRalph /\ WF_vars(RalphStep) /\ WF_vars(ChildEnds)

\* ============================================ pensa: the dependency graph.
\* SpecGraph applies dep_tree and detect_cycles to the rows the deps table
\* can hold: any set of pairs <<issue_id, depends_on_id>> of stored issues
\* with issue_id # depends_on_id (the CHECK of the table). add_dep refuses a
\* pair that closes a cycle; an import of merged JSONL files does not.
MaxNodes == 3      \* issues in the graph

Nodes == 1..MaxNodes
Pairs == {e \in Nodes \X Nodes : e[1] # e[2]}
Directions == {"up", "down"}

NoPensa ==
    /\ db = EmptyDb
    /\ clock = 0
    /\ calls = 0
    /\ last = NoCall
    /\ lock = 0
    /\ clients = <<>>
    /\ files = None
    /\ issued = {}

\* the rows of a query without ORDER BY, here in ascending order
RECURSIVE Asc(_)
Asc(S) ==
    IF S = {} THEN <<>>
    ELSE LET m == CHOOSE x \in S : \A y \in S : x <= y IN <<m>> \o Asc(S \ {m})

\* SELECT depends_on_id FROM deps WHERE issue_id = n  (up)
\* SELECT issue_id FROM deps WHERE depends_on_id = n  (down)
Next1(deps, n, direction) ==
    IF direction = "up" THEN {e[2] : e \in {d \in deps : d[1] = n}}
    ELSE {e[1] : e \in {d \in deps : d[2] = n}}

\* one round of the recursive part of the CTE: a row for every pair of a
\* row of the last round and a deps row that continues it (UNION ALL)
RECURSIVE Expand(_, _, _)
Expand(deps, level, direction) ==
    IF level = <<>> THEN <<>>
    ELSE Asc(Next1(deps, Head(level), direction)) \o Expand(deps, Tail(level), direction)

RECURSIVE TreeRows(_, _, _, _)
TreeRows(deps, level, depth, direction) ==
    IF level = <<>> THEN <<>>
    ELSE [k \in 1..Len(level) |-> [id |-> level[k], depth |-> depth]]
         \o TreeRows(deps, Expand(deps, level, direction), depth + 1, direction)

\* dep_tree(id, direction): the rows of the CTE, ORDER BY depth ASC
dep_tree(deps, id, direction) == TreeRows(deps, Expand(deps, <<id>>, direction), 1, direction)

\* the body of `for parent in parents` of detect_cycles
RECURSIVE ForParents(_, _, _, _, _)
ForParents(parents, start_id, path, visited_local, acc) ==
    IF parents = <<>> THEN acc
    ELSE LET parent == Head(parents) IN
         ForParents(Tail(parents), start_id, path, visited_local,
            IF parent = start_id /\ Len(path) > 1
            THEN [acc EXCEPT !.cycles = Append(@, Append(path, parent))]
            ELSE IF parent \notin visited_local
            THEN [acc EXCEPT !.stack = Append(@, [current |-> parent, path |-> Append(path, parent)])]
            ELSE acc)

\* while let Some((current, path)) = stack.pop()
RECURSIVE WhilePop(_, _, _, _, _)
WhilePop(deps, start_id, stack, visited_local, cycles) ==
    IF stack = <<>> THEN [visited_local |-> visited_local, cycles |-> cycles]
    ELSE LET top == stack[Len(stack)]
             rest == SubSeq(stack, 1, Len(stack) - 1)
         IN IF top.current \in visited_local
            THEN WhilePop(deps, start_id, rest, visited_local, cycles)
            ELSE LET seen == visited_local \cup {top.current}
                     acc == ForParents(Asc(Next1(deps, top.current, "up")), start_id, top.path,
                                       seen, [stack |-> rest, cycles |-> cycles])
                 IN WhilePop(deps, start_id, acc.stack, seen, acc.cycles)

\* for start_id in &all_ids
RECURSIVE ForStarts(_, _, _, _)
ForStarts(deps, all_ids, visited_global, cycles) ==
    IF all_ids = <<>> THEN cycles
    ELSE LET start_id == Head(all_ids) IN
         IF start_id \in visited_global THEN ForStarts(deps, Tail(all_ids), visited_global, cycles)
         ELSE LET r == WhilePop(deps, start_id, <<[current |-> start_id, path |-> <<start_id>>]>>,
                                {}, cycles)
              IN ForStarts(deps, Tail(all_ids), visited_global \cup r.visited_local, r.cycles)

\* detect_cycles(); order is the order in which SELECT DISTINCT issue_id
\* FROM deps gives the ids, which the query leaves open
detect_cycles(deps, order) ==
    ForStarts(deps, SelectSeq(order, LAMBDA n : \E d \in deps : d[1] = n), {}, <<>>)

\* the issues reachable from the set S along the direction
RECURSIVE Reach(_, _, _)
Reach(deps, S, direction) ==
    LET more_ == S \cup UNION {Next1(deps, n, direction) : n \in S}
    IN IF more_ = S THEN S ELSE Reach(deps, more_, direction)

Beyond(deps, n, direction) == Reach(deps, Next1(deps, n, direction), direction)
OnCycle(deps, n) == n \in Beyond(deps, n, "up")
Cyclic(deps) == \E n \in Nodes : OnCycle(deps, n)

Orders == {o \in [1..MaxNodes -> Nodes] : \A a, b \in 1..MaxNodes : a # b => o[a] # o[b]}

InitGraph ==
    /\ NoPensa
    /\ NoSgf
    /\ NoRalph
    /\ \E deps \in SUBSET Pairs, order \in Orders, id \in Nodes, direction \in Directions :
          calc = [deps |-> deps, order |-> order, id |-> id, direction |-> direction,
                  tree |-> None, cycles |-> None]

\* GET /issues/{id}/deps/tree; on rows with a cycle the recursive query has no end
DepTree ==
    /\ calc.tree = None
    /\ ~Cyclic(calc.deps)
    /\ calc' = [calc EXCEPT !.tree = Some(dep_tree(calc.deps, calc.id, calc.direction))]
    /\ UNCHANGED outsideCalc

\* GET /deps/cycles
DetectCycles ==
    /\ calc.cycles = None
    /\ calc' = [calc EXCEPT !.cycles = Some(detect_cycles(calc.deps, calc.order))]
    /\ UNCHANGED outsideCalc

NextGraph ==
    \/ DepTree
    \/ DetectCycles

SpecGraph == InitGraph /\ [][NextGraph]_vars

\* ================================================ sgf: prompt assembly.
\* SpecPrompt applies assemble to a template and a map of variables. A text
\* is a sequence of characters; the variable is named a.
MaxText == 8       \* characters in the template

Chars == {"{", "}", "a", "\n"}
Texts == [1..MaxText -> Chars]
Open == <<"{", "{">>
Close == <<"}", "}">>

\* str::find: the index of the first match of pat in s, 0 when there is none
RECURSIVE FindFrom(_, _, _)
FindFrom(s, pat, i) ==
    IF i + Len(pat) - 1 > Len(s) THEN 0
    ELSE IF SubSeq(s, i, i + Len(pat) - 1) = pat THEN i
    ELSE FindFrom(s, pat, i + 1)

find(s, pat) == FindFrom(s, pat, 1)

\* str::replace: every match, left to right, without overlap
RECURSIVE replace(_, _, _)
replace(s, pat, to) ==
    LET at == find(s, pat) IN
    IF at = 0 THEN s
    ELSE SubSeq(s, 1, at - 1) \o to \o replace(SubSeq(s, at + Len(pat), Len(s)), pat, to)

\* for (key, value) in vars { content = content.replace("{{key}}", value) }
Substitute(content, variables) ==
    IF "a" \in DOMAIN variables
    THEN replace(content, Open \o <<"a">> \o Close, variables["a"]) ELSE content

\* find_unresolved_tokens
RECURSIVE find_unresolved_tokens(_)
find_unresolved_tokens(rest) ==
    LET start == find(rest, Open) IN
    IF start = 0 THEN <<>>
    ELSE LET after_open == SubSeq(rest, start + 2, Len(rest))
             end == find(after_open, Close)
         IN IF end = 0 THEN <<>>
            ELSE LET token == SubSeq(after_open, 1, end - 1)
                     found == IF token # <<>> /\ \A k \in 1..Len(token) : token[k] # "\n"
                              THEN <<Open \o token \o Close>> ELSE <<>>
                 IN found \o find_unresolved_tokens(SubSeq(after_open, end + 2, Len(after_open)))

\* assemble(root, stage, vars); template is None when the file does not exist
assemble(template, variables) ==
    IF template = None THEN [kind |-> "NotFound", tokens |-> <<>>, written |-> None]
    ELSE LET content == Substitute(template[1], variables)
             unresolved == find_unresolved_tokens(content)
         IN IF unresolved # <<>>
            THEN [kind |-> "InvalidData", tokens |-> unresolved, written |-> None]
            ELSE [kind |-> "Ok", tokens |-> <<>>, written |-> Some(content)]

VarMaps == {<<>>, [k \in {"a"} |-> <<"a", "a">>], [k \in {"a"} |-> <<>>]}

InitPrompt ==
    /\ NoPensa
    /\ NoSgf
    /\ NoRalph
    /\ \E template \in {None} \cup {Some(t) : t \in Texts}, v \in VarMaps :
          calc = [template |-> template, vars |-> v, result |-> None]

Assemble ==
    /\ calc.result = None
    /\ calc' = [calc EXCEPT !.result = Some(assemble(calc.template, calc.vars))]
    /\ UNCHANGED outsideCalc

NextPrompt == Assemble

SpecPrompt == InitPrompt /\ [][NextPrompt]_vars

\* ======================================================== sgf: init.
\* SpecInit runs `sgf init` twice on a project whose .gitignore,
\* .claude/settings.json and .pre-commit-config.yaml hold what the user left
\* there. A file is None when it does not exist.
MaxLines == 1      \* lines of the .gitignore found
MaxDeny == 1       \* entries of permissions.deny found
MaxHooks == 1      \* hooks of a repo found

\* a line of text: its trimmed text, and whether blanks surround it
Line(text) == [text |-> text, pad |-> FALSE]
Padded(text) == [text |-> text, pad |-> TRUE]
trim(l) == l.text

\* a text file: its lines, and whether the last one ends with a newline
\* (str::lines gives no empty line after a final newline)
File(lines, nl) == [lines |-> lines, nl |-> nl]

GITIGNORE_ENTRIES ==
    <<".pensa/db.sqlite", ".sgf/logs/", ".sgf/run/", ".sgf/prompts/.assembled/", ".ralph-complete",
      ".ralph-ding", "/target", "node_modules/", ".svelte-kit/", ".env", ".env.local",
      ".env.*.local", ".DS_Store">>

GITIGNORE_FULL ==
    File(<<Line("# Springfield"), Line(".pensa/db.sqlite"), Line(".sgf/logs/"), Line(".sgf/run/"),
           Line(".sgf/prompts/.assembled/"), Line(".ralph-complete"), Line(".ralph-ding"),
           Line(""), Line("# Rust"), Line("/target"),
           Line(""), Line("# Node"), Line("node_modules/"),
           Line(""), Line("# SvelteKit"), Line(".svelte-kit/"),
           Line(""), Line("# Environment"), Line(".env"), Line(".env.local"), Line(".env.*.local"),
           Line(""), Line("# macOS"), Line(".DS_Store")>>, TRUE)

\* the entries pushed to to_add
to_add_all(existing_lines) == GITIGNORE_ENTRIES
to_add(existing_lines) ==
    SelectSeq(GITIGNORE_ENTRIES, LAMBDA entry : \A k \in 1..Len(existing_lines) : existing_lines[k] # entry)

\* if !content.ends_with('\n') { content.push('\n') }
EndLine(f) ==
    IF f.nl THEN f
    ELSE IF f.lines = <<>> THEN File(<<Line("")>>, TRUE)
    ELSE File(f.lines, TRUE)

\* merge_gitignore: the file it leaves
merge_gitignore(file) ==
    IF file = None THEN Some(GITIGNORE_FULL)
    ELSE LET existing == file[1]
             existing_lines == [k \in 1..Len(existing.lines) |-> trim(existing.lines[k])]
             adding == to_add(existing_lines)
         IN IF adding = <<>> THEN file
            ELSE Some(File(EndLine(existing).lines \o <<Line(""), Line("# Springfield")>>
                           \o [k \in 1..Len(adding) |-> Line(adding[k])], TRUE))

\* a JSON or YAML text: how it is laid out ("hand": as the user typed it,
\* "written": as the serializer prints it, "invalid": not parseable), and the
\* document it parses to
Text(layout, doc) == [layout |-> layout, doc |-> doc]

CLAUDE_SETTINGS_DENY_RULES == <<"Edit .sgf/**", "Write .sgf/**", "Bash rm .sgf/**", "Bash mv .sgf/**">>

\* the value of "permissions": absent, a string, or an object whose "deny"
\* is absent, a string or an array of strings
Permissions(kind, deny_kind, deny) == [kind |-> kind, deny_kind |-> deny_kind, deny |-> deny]
NoPermissions == Permissions("absent", "absent", <<>>)

\* a settings document: the kind of its root, its keys in the order of the
\* text, and the value of "permissions"
Settings(root, keys, permissions) == [root |-> root, keys |-> keys, permissions |-> permissions]

\* serde_json's Map keeps the keys sorted, or in insertion order when the
\* build enables preserve_order
SortedKeys(keys) == SelectSeq(<<"permissions", "zone">>, LAMBDA key : \E k \in 1..Len(keys) : keys[k] = key)
MapKeys(keys, preserve_order) == IF preserve_order THEN keys ELSE SortedKeys(keys)

\* for rule in CLAUDE_SETTINGS_DENY_RULES { if !deny_arr.contains(rule) { push } }
RECURSIVE PushMissing(_, _)
PushMissing(arr, rules) ==
    IF rules = <<>> THEN arr
    ELSE PushMissing(IF \E k \in 1..Len(arr) : arr[k] = Head(rules) THEN arr
                     ELSE Append(arr, Head(rules)), Tail(rules))

\* merge_claude_settings: whether it returns Ok, and the file it leaves
merge_claude_settings(file, preserve_order) ==
    LET doc == IF file = None THEN Settings("object", <<>>, NoPermissions)
               ELSE [file[1].doc EXCEPT !.keys = MapKeys(@, preserve_order)]
    IN IF file # None /\ file[1].layout = "invalid" THEN [ok |-> FALSE, file |-> file]
       ELSE IF doc.root # "object" THEN [ok |-> FALSE, file |-> file]
       ELSE LET permissions == IF doc.permissions.kind = "absent"
                               THEN Permissions("object", "absent", <<>>) ELSE doc.permissions
                keys == IF doc.permissions.kind = "absent"
                        THEN MapKeys(Append(doc.keys, "permissions"), preserve_order) ELSE doc.keys
            IN IF permissions.kind # "object" THEN [ok |-> FALSE, file |-> file]
               ELSE IF permissions.deny_kind \notin {"absent", "array"} THEN [ok |-> FALSE, file |-> file]
               ELSE [ok |-> TRUE,
                     file |-> Some(Text("written",
                                Settings("object", keys,
                                   Permissions("object", "array",
                                      PushMissing(permissions.deny, CLAUDE_SETTINGS_DENY_RULES)))))]

\* an entry of "repos": the value of its "repo" key, and its "hooks":
\* absent, a string, or a sequence of hooks, each given by its id
Repo(repo, hooks_kind, hooks) == [repo |-> repo, hooks_kind |-> hooks_kind, hooks |-> hooks]

\* a pre-commit document: the kind of its root, and "repos": absent, a
\* string, or a sequence of entries
PreCommit(root, repos_kind, repos) == [root |-> root, repos_kind |-> repos_kind, repos |-> repos]

PRE_COMMIT_YAML_FULL ==
    Text("hand", PreCommit("mapping", "sequence",
                    <<Repo("local", "sequence", <<"pensa-export", "pensa-import">>)>>))

\* the closure has_hook of merge_pre_commit_config
has_hook(doc, hook_id) ==
    /\ doc.root = "mapping"
    /\ doc.repos_kind = "sequence"
    /\ \E k \in 1..Len(doc.repos) :
          /\ doc.repos[k].hooks_kind = "sequence"
          /\ \E h \in 1..Len(doc.repos[k].hooks) : doc.repos[k].hooks[h] = hook_id

\* repos_seq.iter().position(|repo| repo["repo"] == "local"), 0 for None
local_repo_idx(repos_seq) ==
    IF \E k \in 1..Len(repos_seq) : repos_seq[k].repo = "local"
    THEN CHOOSE k \in 1..Len(repos_seq) :
            repos_seq[k].repo = "local" /\ \A l \in 1..(k - 1) : repos_seq[l].repo # "local"
    ELSE 0

\* merge_pre_commit_config: whether it returns Ok, and the file it leaves
merge_pre_commit_config(file) ==
    IF file = None THEN [ok |-> TRUE, file |-> Some(PRE_COMMIT_YAML_FULL)]
    ELSE IF file[1].layout = "invalid" THEN [ok |-> FALSE, file |-> file]
    ELSE LET doc == file[1].doc
             has_export == has_hook(doc, "pensa-export")
             has_import == has_hook(doc, "pensa-import")
         IN IF has_export /\ has_import THEN [ok |-> TRUE, file |-> file]
            ELSE IF doc.root # "mapping" THEN [ok |-> FALSE, file |-> file]
            ELSE IF doc.repos_kind \notin {"absent", "sequence"} THEN [ok |-> FALSE, file |-> file]
            ELSE LET found == local_repo_idx(doc.repos)
                     repos_seq == IF found = 0 THEN Append(doc.repos, Repo("local", "sequence", <<>>))
                                  ELSE doc.repos
                     idx == IF found = 0 THEN Len(repos_seq) ELSE found
                     local_repo == repos_seq[idx]
                 IN IF local_repo.hooks_kind \notin {"absent", "sequence"}
                    THEN [ok |-> FALSE, file |-> file]
                    ELSE LET hooks_seq == local_repo.hooks
                                 \o (IF has_export THEN <<>> ELSE <<"pensa-export">>)
                                 \o (IF has_import THEN <<>> ELSE <<"pensa-import">>)
                         IN [ok |-> TRUE,
                             file |-> Some(Text("written",
                                        PreCommit("mapping", "sequence",
                                           [repos_seq EXCEPT ![idx] = Repo("local", "sequence", hooks_seq)])))]

\* init::run, the three merges: a failing one ends the run
run(fs) ==
    LET gitignore == merge_gitignore(fs.gitignore)
        settings == merge_claude_settings(fs.settings, fs.preserve_order)
        precommit == merge_pre_commit_config(fs.precommit)
    IN [fs EXCEPT !.gitignore = gitignore,
                  !.settings = settings.file,
                  !.precommit = IF settings.ok THEN precommit.file ELSE @]

SeqsUpTo(S, n) == UNION {[1..k -> S] : k \in 0..n}

GitLines == {Line(".env"), Padded(".DS_Store"), Line("*.log"), Line("")}
GitFiles ==
    {None, Some(GITIGNORE_FULL)}
    \cup {Some(File(lines, nl)) : lines \in SeqsUpTo(GitLines, MaxLines), nl \in BOOLEAN}

\* the texts that the two forms of a file stand for: no line after the last
\* newline is an empty one
WellFormed(file) ==
    file = None \/ IF file[1].lines = <<>> THEN ~file[1].nl
                   ELSE file[1].nl \/ file[1].lines[Len(file[1].lines)] # Line("")

DenyArrays == SeqsUpTo({"Edit .sgf/**", "Read **"}, MaxDeny)
PermissionsValues ==
    {Permissions("string", "absent", <<>>), Permissions("object", "absent", <<>>),
     Permissions("object", "string", <<>>)}
    \cup {Permissions("object", "array", deny) : deny \in DenyArrays}
SettingsDocs ==
    {Settings("array", <<>>, NoPermissions)}
    \cup {Settings("object", keys, NoPermissions) : keys \in {<<>>, <<"zone">>}}
    \cup {Settings("object", keys, p) :
             keys \in {<<"permissions">>, <<"zone", "permissions">>, <<"permissions", "zone">>},
             p \in PermissionsValues}
SettingsFiles ==
    {None, Some(Text("invalid", Settings("array", <<>>, NoPermissions)))}
    \cup {Some(Text("hand", doc)) : doc \in SettingsDocs}

HookIds == {"pensa-export", "pensa-import", "fmt"}
Repos ==
    {Repo(repo, kind, <<>>) : repo \in {"local", "other"}, kind \in {"absent", "string"}}
    \cup {Repo(repo, "sequence", hooks) : repo \in {"local", "other"}, hooks \in SeqsUpTo(HookIds, MaxHooks)}
PreCommitDocs ==
    {PreCommit("sequence", "absent", <<>>), PreCommit("mapping", "absent", <<>>),
     PreCommit("mapping", "string", <<>>)}
    \cup {PreCommit("mapping", "sequence", repos) : repos \in SeqsUpTo(Repos, 2)}
PreCommitFiles ==
    {None, Some(Text("invalid", PreCommit("sequence", "absent", <<>>)))}
    \cup {Some(Text("hand", doc)) : doc \in PreCommitDocs}

InitInit ==
    /\ NoPensa
    /\ NoSgf
    /\ NoRalph
    /\ \E gitignore \in {f \in GitFiles : WellFormed(f)}, settings \in SettingsFiles,
          precommit \in PreCommitFiles, preserve_order \in BOOLEAN :
          calc = [gitignore |-> gitignore, settings |-> settings, precommit |-> precommit,
                  preserve_order |-> preserve_order, runs |-> 0, first |-> None]

\* sgf init
RunInit ==
    /\ calc.runs < 2
    /\ \E fs \in {run(calc)} :
          calc' = [fs EXCEPT !.runs = @ + 1, !.first = IF calc.runs = 0 THEN Some(fs) ELSE @]
    /\ UNCHANGED outsideCalc

NextInit == RunInit

SpecInit == InitInit /\ [][NextInit]_vars

\* ============================================== ralph: the formatter.
\* SpecTruncate applies truncate to a string and a limit. A string is the
\* sequence of its bytes; a byte is given by the character it belongs to and
\* its place in that character's UTF-8 encoding.
MaxChars == 4      \* characters in the string
MaxLimit == 5      \* the limit max goes up to this

\* characters of one, two and three bytes
Utf8Chars == {"a", "e'", "E="}
len_utf8(c) == CASE c = "a" -> 1 [] c = "e'" -> 2 [] OTHER -> 3

\* the bytes of a character, and of a sequence of characters
CharBytes(c) == [k \in 1..len_utf8(c) |-> [c |-> c, k |-> k]]
RECURSIVE Encode(_)
Encode(cs) == IF cs = <<>> THEN <<>> ELSE CharBytes(Head(cs)) \o Encode(Tail(cs))
Dots == <<[c |-> ".", k |-> 1], [c |-> ".", k |-> 1], [c |-> ".", k |-> 1]>>

\* str::is_char_boundary, for a byte index counted from 0
is_char_boundary(s, index) ==
    \/ index = 0
    \/ index = Len(s)
    \/ index < Len(s) /\ s[index + 1].k = 1

\* s.char_indices(): the byte index of every character
char_indices(s) == SelectSeq([i \in 1..Len(s) |-> i - 1], LAMBDA i : s[i + 1].k = 1)

\* how far slice_end lies behind end: c.len_utf8()
one_byte(c) == 1
advance(c) == len_utf8(c)

\* truncate(s, max): whether it panics, and the string it returns
truncate(s, max) ==
    IF Len(s) <= max THEN [panic |-> FALSE, out |-> s]
    ELSE LET indices == char_indices(s)
             taken == IF max < Len(indices) THEN max ELSE Len(indices)
             end == IF taken = 0 THEN 0 ELSE indices[taken]
             slice_end == IF end < Len(s) THEN end + advance(s[end + 1].c) ELSE end
         IN IF ~is_char_boundary(s, end) \/ ~is_char_boundary(s, slice_end) \/ slice_end > Len(s)
            THEN [panic |-> TRUE, out |-> <<>>]
            ELSE [panic |-> FALSE, out |-> SubSeq(s, 1, slice_end) \o Dots]

InitTruncate ==
    /\ NoPensa
    /\ NoSgf
    /\ NoRalph
    /\ \E cs \in SeqsUpTo(Utf8Chars, MaxChars), max \in 0..MaxLimit :
          calc = [chars |-> cs, s |-> Encode(cs), max |-> max, result |-> None]

Truncate ==
    /\ calc.result = None
    /\ calc' = [calc EXCEPT !.result = Some(truncate(calc.s, calc.max))]
    /\ UNCHANGED outsideCalc

NextTruncate == Truncate

SpecTruncate == InitTruncate /\ [][NextTruncate]_vars

\* ================================================================ graph walks, step by step
\* rows without ORDER BY, taken in ascending order
Ascending == [k \in 1..MaxNodes |-> k]

\* for p in parents { if visited.insert(p) { queue.push_back(p) } }
RECURSIVE PushUnvisited(_, _, _)
PushUnvisited(parents, queue, visited) ==
    IF parents = <<>> THEN [queue |-> queue, visited |-> visited]
    ELSE IF Head(parents) \in visited THEN PushUnvisited(Tail(parents), queue, visited)
    ELSE PushUnvisited(Tail(parents), Append(queue, Head(parents)), visited \cup {Head(parents)})

WalkStart(deps, id) ==
    [pc |-> "for", deps |-> deps, id |-> id, direction |-> "",
     all_ids |-> SelectSeq(Ascending, LAMBDA n : \E d \in deps : d[1] = n),
     visited_global |-> {}, stack |-> <<>>, visited_local |-> {}, cycles |-> <<>>,
     child |-> 0, queue |-> <<>>, visited |-> {}, cycle |-> None, frontier |-> {}, rounds |-> 0]

InitWalk ==
    /\ NoPensa
    /\ NoSgf
    /\ NoRalph
    /\ \E deps \in SUBSET Pairs, id \in Nodes : calc = WalkStart(deps, id)

\* detect_cycles: for start_id in &all_ids { .. }; Ok(cycles)
CyclesFor ==
    /\ calc.pc = "for"
    /\ IF calc.all_ids = <<>> THEN calc' = [calc EXCEPT !.pc = "bfs", !.visited_global = {}]
       ELSE IF Head(calc.all_ids) \in calc.visited_global
       THEN calc' = [calc EXCEPT !.all_ids = Tail(@)]
       ELSE calc' = [calc EXCEPT !.pc = "pop", !.visited_local = {},
                                 !.stack = <<[current |-> Head(calc.all_ids),
                                              path |-> <<Head(calc.all_ids)>>]>>]
    /\ UNCHANGED outsideCalc

\* detect_cycles: while let Some((current, path)) = stack.pop() { .. };
\* visited_global.extend(visited_local)
CyclesPop ==
    /\ calc.pc = "pop"
    /\ IF calc.stack = <<>>
       THEN calc' = [calc EXCEPT !.pc = "for", !.all_ids = Tail(@), !.visited_local = {},
                                 !.visited_global = @ \cup calc.visited_local]
       ELSE \E top \in {calc.stack[Len(calc.stack)]}, rest \in {SubSeq(calc.stack, 1, Len(calc.stack) - 1)} :
               IF top.current \in calc.visited_local THEN calc' = [calc EXCEPT !.stack = rest]
               ELSE \E acc \in {ForParents(Asc(Next1(calc.deps, top.current, "up")),
                                           Head(calc.all_ids), top.path,
                                           calc.visited_local \cup {top.current},
                                           [stack |-> rest, cycles |-> calc.cycles])} :
                       calc' = [calc EXCEPT !.stack = acc.stack, !.cycles = acc.cycles,
                                            !.visited_local = @ \cup {top.current}]
    /\ UNCHANGED outsideCalc

\* has_cycle(child_id, parent_id), up to the loop: queue.push_back(parent_id); visited.insert(parent_id)
HasCycleStart ==
    /\ calc.pc = "bfs"
    /\ \E child_id \in Nodes :
          calc' = [calc EXCEPT !.pc = "while", !.child = child_id,
                               !.queue = <<calc.id>>, !.visited = {calc.id}]
    /\ UNCHANGED outsideCalc

\* while let Some(current) = queue.pop_front() { .. }; Ok(false)
HasCycleWhile ==
    /\ calc.pc = "while"
    /\ IF calc.queue = <<>>
       THEN calc' = [calc EXCEPT !.pc = "seed", !.cycle = Some(FALSE), !.child = 0, !.visited = {}]
       ELSE IF Head(calc.queue) = calc.child
       THEN calc' = [calc EXCEPT !.pc = "seed", !.cycle = Some(TRUE), !.child = 0,
                                 !.queue = <<>>, !.visited = {}]
       ELSE \E q \in {PushUnvisited(Asc(Next1(calc.deps, Head(calc.queue), "up")),
                                    Tail(calc.queue), calc.visited)} :
               calc' = [calc EXCEPT !.queue = q.queue, !.visited = q.visited]
    /\ UNCHANGED outsideCalc

\* dep_tree(id, direction): the first SELECT of the recursive query fills the queue of rows
TreeSeed ==
    /\ calc.pc = "seed"
    /\ \E direction \in Directions :
          calc' = [calc EXCEPT !.pc = "tree", !.direction = direction,
                               !.frontier = Next1(calc.deps, calc.id, direction)]
    /\ UNCHANGED outsideCalc

\* dep_tree: the recursive SELECT is run on the rows of the last round and
\* its rows are queued (UNION ALL keeps every row); the query ends when a
\* round adds none. frontier holds the ids of the round's rows, which is
\* what the next round's rows depend on.
TreeRound ==
    /\ calc.pc = "tree"
    /\ IF calc.frontier = {} THEN calc' = [calc EXCEPT !.pc = "done"]
       ELSE calc' = [calc EXCEPT !.frontier = UNION {Next1(calc.deps, n, calc.direction) : n \in calc.frontier},
                                 !.rounds = IF @ < MaxNodes THEN @ + 1 ELSE @]
    /\ UNCHANGED outsideCalc

NextWalk ==
    \/ CyclesFor
    \/ CyclesPop
    \/ HasCycleStart
    \/ HasCycleWhile
    \/ TreeSeed
    \/ TreeRound

SpecWalk == InitWalk /\ [][NextWalk]_vars

\* every call goes on running until it returns
SpecWalkFair == SpecWalk /\ WF_vars(NextWalk)

\* ================================================================ errors over HTTP
\* PensaError; a and b are the strings a variant carries, as lists of pieces
PensaErr(kind, a, b) == [kind |-> kind, a |-> a, b |-> b]
ErrorIds == {"pn-1", "pn-2"}
Messages == {"failed to add dep", "failed to check dependents", "failed to check comments",
             "failed to check cycle", "failed to query dep_tree"}
Counts == {"0", "1", "2"}
PensaError ==
    {PensaErr("NotFound", <<id>>, <<>>) : id \in ErrorIds}
    \cup {PensaErr("AlreadyClaimed", <<id>>, <<holder>>) : id \in ErrorIds, holder \in Actors}
    \cup {PensaErr("CycleDetected", <<>>, <<>>)}
    \cup {PensaErr("InvalidStatusTransition", <<from>>, <<to>>) : from \in Statuses, to \in Statuses}
    \cup {PensaErr("DeleteRequiresForce",
                   <<"issue has ", n[1], " dependents and ", n[2], " comments">>, <<>>) :
             n \in (Counts \X Counts) \ {<<"0", "0">>}}
    \cup {PensaErr("Internal", <<msg>>, <<>>) : msg \in Messages}

\* impl fmt::Display for PensaError
to_string(e) ==
    CASE e.kind = "NotFound" -> <<"issue not found: ">> \o e.a
      [] e.kind = "AlreadyClaimed" -> <<"issue ">> \o e.a \o <<" already claimed by ">> \o e.b
      [] e.kind = "CycleDetected" -> <<"adding this dependency would create a cycle">>
      [] e.kind = "InvalidStatusTransition" ->
           <<"invalid status transition from ">> \o e.a \o <<" to ">> \o e.b
      [] e.kind = "DeleteRequiresForce" -> <<"delete requires --force: ">> \o e.a
      [] OTHER -> <<"internal error: ">> \o e.a

\* PensaError::code
code(e) ==
    CASE e.kind = "NotFound" -> Some("not_found")
      [] e.kind = "AlreadyClaimed" -> Some("already_claimed")
      [] e.kind = "CycleDetected" -> Some("cycle_detected")
      [] e.kind = "InvalidStatusTransition" -> Some("invalid_status_transition")
      [] e.kind = "DeleteRequiresForce" -> None
      [] OTHER -> None

\* impl IntoResponse for AppError: the status, and ErrorResponse::from(&err) as the JSON body
into_response(e) ==
    [status |-> CASE e.kind = "NotFound" -> 404
                  [] e.kind = "Internal" -> 500
                  [] OTHER -> 409,
     body |-> [error |-> to_string(e), code |-> code(e)]]

\* Client::parse_error; readable: resp.json::<ErrorResponse>() gave a value
parse_error(resp, readable) ==
    IF ~readable THEN PensaErr("Internal", <<"unknown error from daemon">>, <<>>)
    ELSE CASE resp.body.code = Some("not_found") -> PensaErr("NotFound", resp.body.error, <<>>)
           [] resp.body.code = Some("already_claimed") ->
                PensaErr("AlreadyClaimed", <<>>, resp.body.error)
           [] resp.body.code = Some("cycle_detected") -> PensaErr("CycleDetected", <<>>, <<>>)
           [] resp.body.code = Some("invalid_status_transition") ->
                PensaErr("InvalidStatusTransition", <<>>, resp.body.error)
           [] OTHER -> PensaErr("Internal", resp.body.error, <<>>)

InitErrors ==
    /\ NoPensa
    /\ NoSgf
    /\ NoRalph
    /\ \E e \in PensaError : calc = [pc |-> "raised", err |-> e, resp |-> None, got |-> None]

\* the handler's Err(e) becomes the response
IntoResponse ==
    /\ calc.pc = "raised"
    /\ calc' = [calc EXCEPT !.pc = "sent", !.resp = Some(into_response(calc.err))]
    /\ UNCHANGED outsideCalc

\* the client, on a status that is no success: Err(Self::parse_error(resp))
ParseError ==
    /\ calc.pc = "sent"
    /\ calc.resp[1].status \notin 200..299
    /\ \E readable \in BOOLEAN :
          calc' = [calc EXCEPT !.pc = IF readable THEN "parsed" ELSE "unread",
                               !.got = Some(parse_error(calc.resp[1], readable))]
    /\ UNCHANGED outsideCalc

NextErrors ==
    \/ IntoResponse
    \/ ParseError

SpecErrors == InitErrors /\ [][NextErrors]_vars

\* ================================================================ waiting for the daemon
\* times are in milliseconds
DEADLINE_MS == 5000
POLL_MS == 100
\* by how much a sleep may overrun
MaxLate == 50
Never == -1
\* how long after `pn daemon` was started the daemon answers
Delays == {POLL_MS, DEADLINE_MS - POLL_MS, DEADLINE_MS, DEADLINE_MS + MaxLate,
           DEADLINE_MS + POLL_MS, DEADLINE_MS + POLL_MS + MaxLate, Never}

\* daemon_is_reachable(root): `pn daemon status` succeeds
always_reachable(now, ready_at) == TRUE
daemon_is_reachable(now, ready_at) == ready_at # Never /\ ready_at <= now

InitEnsure ==
    /\ NoPensa
    /\ NoSgf
    /\ NoRalph
    /\ \E up \in BOOLEAN, delay \in Delays :
          calc = [pc |-> "ensure", now |-> 0, ready_at |-> IF up THEN 0 ELSE Never,
                  delay |-> IF up THEN 0 ELSE delay, started_at |-> Never, deadline |-> 0,
                  err |-> "", pid_file |-> FALSE, harness |-> FALSE]

\* ensure_daemon: if daemon_is_reachable(root) { return Ok(()) }
ProbeFirst ==
    /\ calc.pc = "ensure"
    /\ calc' = [calc EXCEPT !.pc = IF daemon_is_reachable(calc.now, calc.ready_at)
                                   THEN "write_pid" ELSE "start"]
    /\ UNCHANGED outsideCalc

\* ensure_daemon: Command::new("pn").args(["daemon", ..]).spawn()?; let deadline = ..
StartPn ==
    /\ calc.pc = "start"
    /\ \/ calc' = [calc EXCEPT !.pc = "wait", !.started_at = calc.now,
                               !.deadline = calc.now + DEADLINE_MS,
                               !.ready_at = IF calc.delay = Never THEN Never
                                            ELSE calc.now + calc.delay]
       \/ calc' = [calc EXCEPT !.pc = "failed", !.err = "Other"]
    /\ UNCHANGED outsideCalc

\* ensure_daemon: one turn of while Instant::now() < deadline { sleep; probe }, or the Err after it
WaitReady ==
    /\ calc.pc = "wait"
    /\ IF calc.now < calc.deadline
       THEN \E late \in {0, MaxLate} :
               LET woke == calc.now + POLL_MS + late
               IN calc' = [calc EXCEPT !.now = woke,
                                       !.pc = IF daemon_is_reachable(woke, calc.ready_at)
                                              THEN "write_pid" ELSE "wait"]
       ELSE calc' = [calc EXCEPT !.pc = "failed", !.err = "TimedOut"]
    /\ UNCHANGED outsideCalc

\* run: loop_mgmt::write_pid_file(root, &loop_id)?
WritePidAfter ==
    /\ calc.pc = "write_pid"
    /\ \/ calc' = [calc EXCEPT !.pc = "spawn", !.pid_file = TRUE]
       \/ calc' = [calc EXCEPT !.pc = "failed", !.err = "Other"]
    /\ UNCHANGED outsideCalc

\* run: the harness is spawned
SpawnAfter ==
    /\ calc.pc = "spawn"
    /\ calc' = [calc EXCEPT !.pc = "running", !.harness = TRUE]
    /\ UNCHANGED outsideCalc

NextEnsure ==
    \/ ProbeFirst
    \/ StartPn
    \/ WaitReady
    \/ WritePidAfter
    \/ SpawnAfter

SpecEnsure == InitEnsure /\ [][NextEnsure]_vars

\* ================================================================ claims
\* helpers of the formulas below
IsCall == calls' = calls + 1
Parents(deps, X) == {d[2] : d \in {e \in deps : e[1] \in X}}
RECURSIVE Closure(_, _, _)
Closure(deps, X, n) == IF n = 0 THEN X ELSE Closure(deps, X \cup Parents(deps, X), n - 1)
\* issues reachable from i over one or more dep edges
ReachableFrom(deps, i) == Closure(deps, Parents(deps, {i}), Cardinality(deps))
\* the events a step appended
Appended == SubSeq(db'.events, Len(db.events) + 1, Len(db'.events))
KeepsLog == Len(db'.events) >= Len(db.events) /\ SubSeq(db'.events, 1, Len(db.events)) = db.events
Quiet == \A c \in Clients : clients[c].st \in {"idle", "done"}
DoneClients == {c \in Clients : clients[c].st = "done"}

\* C1: two claims racing for one open issue, and nothing else: exactly one
\* succeeds, returning status in_progress and itself as assignee; the other
\* fails with AlreadyClaimed naming the winner; the row is the winner's.
C1_ClaimRace ==
    \A c1 \in Clients, c2 \in Clients :
        ( /\ c1 # c2
          /\ clients[c1].st = "done" /\ clients[c2].st = "done"
          /\ clients[c1].req.op = "claim" /\ clients[c2].req.op = "claim"
          /\ clients[c1].req.id = clients[c2].req.id
          /\ \A c \in Clients \ {c1, c2} : clients[c].st = "idle" )
        => \E w \in {c1, c2} :
             LET l == IF w = c1 THEN c2 ELSE c1
                 i == clients[w].req.id
             IN /\ clients[w].res.kind = "Ok"
                /\ clients[w].res.issue[1].status = "in_progress"
                /\ clients[w].res.issue[1].assignee = Some(ActorOf(w))
                /\ clients[l].res.kind = "AlreadyClaimed"
                /\ clients[l].res.holder = ActorOf(w)
                /\ db.issues[i].status = "in_progress"
                /\ db.issues[i].assignee = Some(ActorOf(w))

C1_Witness ==
    /\ clients[1].st = "done" /\ clients[2].st = "done"
    /\ clients[1].req.op = "claim" /\ clients[2].req.op = "claim"
    /\ clients[1].req.id = clients[2].req.id
    /\ clients[2].res.kind = "Ok" /\ clients[1].res.kind = "AlreadyClaimed"

\* C2: once every request sent has been answered, the store and the
\* responses are those of running the same requests one at a time in some
\* order.
Perms(D) == {f \in [1..Cardinality(D) -> D] : \A a, b \in 1..Cardinality(D) : a # b => f[a] # f[b]}

RECURSIVE SerialRun(_, _)
SerialRun(S, order) ==
    IF order = <<>> THEN [S |-> S, res |-> <<>>]
    ELSE LET o == RunOp(S, clients[Head(order)].req, 0, 0)
             rest == SerialRun(o.S, Tail(order))
         IN [S |-> rest.S, res |-> <<o.res>> \o rest.res]

C2_Serializable ==
    Quiet => \E order \in Perms(DoneClients) :
                LET so == SerialRun(DaemonInitDb, order)
                IN /\ so.S = db
                   /\ \A k \in 1..Len(order) : so.res[k] = clients[order[k]].res

C2_Witness ==
    /\ Quiet /\ DoneClients = Clients
    /\ clients[1].req.op = "release" /\ clients[2].req.op = "claim"
    /\ clients[1].req.id = clients[2].req.id
    /\ db.issues[clients[1].req.id].status = "open"

\* C3: the dep edges never contain a cycle, self-loops included.
C3_Acyclic == \A i \in Ids : i \notin ReachableFrom(db.deps, i)

C3_Witness ==
    /\ last.req.op = "add_dep" /\ last.res.kind = "CycleDetected"
    /\ last.req.id # last.req.parent
    /\ <<last.req.parent, last.req.id>> \in db.deps

\* C4 (as claimed): every in_progress issue has an assignee.
C4_InProgressHasAssignee ==
    \A i \in DOMAIN db.issues : db.issues[i].status = "in_progress" => db.issues[i].assignee # None

\* C5 (as claimed): every closed issue has a closed_at.
C5_ClosedHasClosedAt ==
    \A i \in DOMAIN db.issues : db.issues[i].status = "closed" => db.issues[i].closed_at # None

\* C6 (as claimed): every open issue has neither closed_at nor close_reason,
\* in particular the issue a successful release_issue or reopen_issue returns.
C6_OpenHasNoClosure ==
    (last.req.op \in {"release", "reopen"} /\ last.res.kind = "Ok") =>
        \A i \in DOMAIN db.issues :
            db.issues[i].status = "open" => db.issues[i].closed_at = None /\ db.issues[i].close_reason = None

\* C7 (as claimed): an engine call that returns an error leaves the store as
\* it found it.
C7_AllOrNothing ==
    [][(IsCall /\ last'.res.kind # "Ok") => db' = db]_vars

\* C8 (as claimed): a successful create, update, claim, release, reopen,
\* add_dep or remove_dep appends exactly one event; a successful close
\* appends only closed events, exactly one for each issue it closes (the
\* issue and its fixes target).
OneEventOps == {"create", "update", "claim", "release", "reopen", "add_dep", "remove_dep"}
Closes(id) == {id} \cup {f \in Ids : db.issues[id].fixes = Some(f)}

C8_OneEventPerClosedIssue ==
    [][(IsCall /\ last'.res.kind = "Ok") =>
          /\ last'.req.op \in OneEventOps =>
                KeepsLog /\ Len(Appended) = 1 /\ Appended[1].issue_id = last'.req.id
          /\ last'.req.op = "close" =>
                /\ KeepsLog
                /\ \A k \in 1..Len(Appended) :
                      Appended[k].event_type = "closed" /\ Appended[k].issue_id \in Closes(last'.req.id)
                /\ \A i \in Closes(last'.req.id) :
                      Cardinality({k \in 1..Len(Appended) : Appended[k].issue_id = i}) = 1]_vars

\* C8 (what close_issue does): a successful close appends one closed event
\* for the issue and then one for its fixes target if it has one, which is a
\* second event on the same issue when fixes names the issue itself.
C8_OneEventPerClose ==
    [][(IsCall /\ last'.res.kind = "Ok") =>
          /\ last'.req.op \in OneEventOps =>
                KeepsLog /\ Len(Appended) = 1 /\ Appended[1].issue_id = last'.req.id
          /\ last'.req.op = "close" =>
                LET fixes == db.issues[last'.req.id].fixes
                IN /\ KeepsLog
                   /\ Len(Appended) = IF fixes = None THEN 1 ELSE 2
                   /\ \A k \in 1..Len(Appended) : Appended[k].event_type = "closed"
                   /\ Appended[1].issue_id = last'.req.id
                   /\ fixes # None => Appended[2].issue_id = fixes[1]]_vars

C8_Witness ==
    /\ last.req.op = "close" /\ last.res.kind = "Ok"
    /\ last.res.issue[1].fixes = Some(last.req.id)
    /\ Len(db.events) >= 2
    /\ db.events[Len(db.events)].issue_id = last.req.id
    /\ db.events[Len(db.events) - 1].issue_id = last.req.id
    /\ db.events[Len(db.events) - 1].event_type = "closed"

\* C9: claiming an issue that is in_progress or closed fails with
\* AlreadyClaimed carrying its assignee (the empty string when it has none)
\* and leaves its status, its assignee and the event log as they were.
C9_ClaimRefused ==
    [][(/\ IsCall
        /\ last'.req.op = "claim"
        /\ Exists(db, last'.req.id)
        /\ db.issues[last'.req.id].status \in {"in_progress", "closed"})
       => LET row == db.issues[last'.req.id]
          IN /\ last'.res.kind = "AlreadyClaimed"
             /\ row.assignee # None => last'.res.holder = row.assignee[1]
             /\ row.assignee = None => last'.res.holder = ""
             /\ Exists(db', last'.req.id)
             /\ db'.issues[last'.req.id].status = row.status
             /\ db'.issues[last'.req.id].assignee = row.assignee
             /\ db'.events = db.events]_vars

C9_Witness ==
    /\ last.req.op = "claim" /\ last.res.kind = "AlreadyClaimed"
    /\ last.res.holder \in Actors /\ last.res.holder # last.req.actor
    /\ db.issues[last.req.id].status = "in_progress"
    /\ db.issues[last.req.id].assignee = Some(last.res.holder)

\* C10: a successful close of T whose fixes names B leaves B closed with
\* close_reason "fixed by T", and appends a closed event on T and a closed
\* event on B that carry the same timestamp.
C10_FixesAutoClose ==
    [][(/\ IsCall
        /\ last'.req.op = "close" /\ last'.res.kind = "Ok"
        /\ db.issues[last'.req.id].fixes # None)
       => LET T == last'.req.id
              B == db.issues[T].fixes[1]
          IN /\ Exists(db', B)
             /\ db'.issues[B].status = "closed"
             /\ db'.issues[B].close_reason = Some(FixedBy(T))
             /\ \E k1, k2 \in 1..Len(Appended) :
                   /\ k1 # k2
                   /\ Appended[k1].issue_id = T /\ Appended[k1].event_type = "closed"
                   /\ Appended[k2].issue_id = B /\ Appended[k2].event_type = "closed"
                   /\ Appended[k1].created_at = Appended[k2].created_at]_vars

C10_Witness ==
    /\ last.req.op = "close" /\ last.res.kind = "Ok"
    /\ last.res.issue[1].fixes # None
    /\ last.res.issue[1].fixes[1] # last.req.id
    /\ db.issues[last.res.issue[1].fixes[1]].close_reason = Some(FixedBy(last.req.id))
    /\ db.issues[last.res.issue[1].fixes[1]].status = "closed"

\* C11 (as claimed): delete_issue on an existing issue fails with
\* DeleteRequiresForce, deleting nothing, exactly when force is false and the
\* issue has a dependent or a comment; in every other case it succeeds and
\* no issue row, dep edge, comment or event refers to the id afterwards.
HasDependents(S, id) == \E d \in S.deps : d[2] = id
HasComments(S, id) == \E c \in S.comments : c.issue_id = id
RefersTo(S, id) ==
    \/ Exists(S, id)
    \/ \E d \in S.deps : d[1] = id \/ d[2] = id
    \/ HasComments(S, id)
    \/ \E k \in 1..Len(S.events) : S.events[k].issue_id = id

C11_DeleteCascades ==
    [][(IsCall /\ last'.req.op = "delete" /\ Exists(db, last'.req.id)) =>
          LET id == last'.req.id
          IN IF ~last'.req.force /\ (HasDependents(db, id) \/ HasComments(db, id))
             THEN last'.res.kind = "DeleteRequiresForce" /\ db' = db
             ELSE last'.res.kind = "Ok" /\ ~RefersTo(db', id)]_vars

\* C11 (what delete_issue does): ... in every other case it succeeds and
\* nothing refers to the id afterwards, unless another issue's fixes names
\* the id: then the final DELETE fails and the call returns Internal.
FixedByOther(S, id) == \E j \in DOMAIN S.issues : j # id /\ S.issues[j].fixes = Some(id)

C11_DeleteCascadesUnlessFixed ==
    [][(IsCall /\ last'.req.op = "delete" /\ Exists(db, last'.req.id)) =>
          LET id == last'.req.id
          IN IF ~last'.req.force /\ (HasDependents(db, id) \/ HasComments(db, id))
             THEN last'.res.kind = "DeleteRequiresForce" /\ db' = db
             ELSE IF FixedByOther(db, id)
                  THEN last'.res.kind = "Internal" /\ Exists(db', id)
                  ELSE last'.res.kind = "Ok" /\ ~RefersTo(db', id)]_vars

\* C12: ready_issues({}) returns exactly the issues that are open, of type
\* task, test or chore, and whose dep parents are all closed; no issue is in
\* both ready_issues and blocked_issues; and when T1 is closed, an open task,
\* test or chore whose only non-closed parent was T1 (and that T1 does not
\* fix, so that it stays open) is in ready_issues afterwards.
OpenParents(S, i) == {p \in DOMAIN S.issues : <<i, p>> \in S.deps /\ S.issues[p].status # "closed"}
ReadyAsSpecified(S) ==
    {i \in DOMAIN S.issues :
        /\ S.issues[i].status = "open"
        /\ S.issues[i].issue_type \in {"task", "test", "chore"}
        /\ \A p \in DOMAIN S.issues : <<i, p>> \in S.deps => S.issues[p].status = "closed"}

Observed(S) == [issues |-> S.issues, deps |-> S.deps, comments |-> S.comments]

C13_RoundTrip ==
    [][(last.req.op = "export" /\ last'.req.op = "import" /\ calls' = calls + 1)
          => /\ last'.res.kind = "Ok"
             /\ Observed(db') = Observed(db)]_vars

C13_Witness ==
    /\ last.req.op = "import"
    /\ last.res.kind = "Ok"
    /\ db.issues # <<>>
    /\ db.deps # {}
    /\ db.comments # {}
    /\ \E i \in DOMAIN db.issues : db.issues[i].status = "closed"

\* C14: no two successful create_issue calls return the same id, also when
\* the issue the id was first given to has been deleted
C14_IdsUnique ==
    [][(calls' = calls + 1 /\ last'.req.op = "create" /\ last'.res.kind = "Ok")
          => last'.req.id \notin issued]_vars

\* C14 (what create_issue does): it never returns the id of an issue that is
\* in the store
C14_LiveIdsUnique ==
    [][(calls' = calls + 1 /\ last'.req.op = "create" /\ last'.res.kind = "Ok")
          => ~Exists(db, last'.req.id)]_vars

\* ---------------------------------------------------------------- sgf
HasPidFile(dir, loop_id, p) == loop_id \in DOMAIN dir /\ dir[loop_id] = p

\* from before the spawn until run removes the file
Guarded(o) == o.pc \in {"register", "spawn", "poll", "kill", "wait", "join"}

\* C15: the file .sgf/run/<loop_id>.pid holds the orchestrator's pid from
\* before the harness is spawned until the harness has exited, and is gone
\* once run has returned the exit code
C15_PidFile ==
    [][\A p \in Orchs :
          /\ Guarded(orchs'[p]) => HasPidFile(run_dir', orchs'[p].loop_id, p)
          /\ (orchs[p].pc = "remove_pid" /\ orchs'[p].pc = "done")
                => orchs[p].loop_id \notin DOMAIN run_dir']_vars

\* C15 (what run does): the file stays as written unless a process running
\* with the same loop id writes or removes it
C15_PidFileUnlessSameId ==
    [][\A p \in Orchs :
          (Guarded(orchs[p]) /\ Guarded(orchs'[p]) /\ HasPidFile(run_dir, orchs[p].loop_id, p))
             => \/ HasPidFile(run_dir', orchs[p].loop_id, p)
                \/ \E q \in Orchs \ {p} :
                      orchs[q].loop_id = orchs[p].loop_id /\ orchs'[q] # orchs[q]]_vars

\* C16: when a listed PID file refers to a live process, pre_launch_recovery
\* returns having removed no PID file and run no cleanup command
C16_LiveSkipsRecovery ==
    [][\A p \in Orchs :
          (orchs[p].pc = "check" /\ orchs'[p] # orchs[p]
             /\ \E e \in orchs[p].pid_entries : is_pid_alive(orchs, e[2]))
          => /\ orchs'[p].pc = "daemon"
             /\ orchs'[p].ran = <<>>
             /\ run_dir' = run_dir
             /\ tree' = tree]_vars

C16_Witness ==
    \E p \in Orchs :
       /\ orchs[p].pc = "daemon"
       /\ orchs[p].any_alive
       /\ \E e \in orchs[p].pid_entries : e[2] = "dead" /\ HasPidFile(run_dir, e[1], "dead")
       /\ tree.modified

\* every *.pid file that was listed held the pid of a dead process
AllStale(o) ==
    /\ o.seen # {}
    /\ o.seen = {e[1] : e \in o.pid_entries}
    /\ ~o.any_alive

Commands == {"checkout", "clean", "doctor"}

\* C17: when PID files exist and all refer to dead processes, recovery has
\* removed every one of them and reset the working tree before the launch
\* goes on, and no failing cleanup command ends the launch
C17_StaleRecovered ==
    [][\A p \in Orchs :
          /\ (orchs'[p].pc = "daemon" /\ AllStale(orchs'[p]))
                => /\ \A e \in orchs'[p].pid_entries : ~HasPidFile(run_dir', e[1], e[2])
                   /\ DOMAIN orchs'[p].ran = Commands
                   /\ orchs'[p].ran["checkout"] = "ok" => ~tree'.modified
                   /\ orchs'[p].ran["clean"] = "ok" => ~tree'.untracked
          /\ (orchs[p].pc \in {"remove", "checkout", "clean", "doctor"} /\ orchs'[p] # orchs[p])
                => orchs'[p].pc \in {"checkout", "clean", "doctor", "daemon"}]_vars

C17_Witness ==
    \E p \in Orchs :
       /\ orchs[p].pc = "daemon"
       /\ AllStale(orchs[p])
       /\ "stale" \in orchs[p].seen
       /\ "stale" \notin DOMAIN run_dir
       /\ \E c \in Commands : orchs[p].ran[c] = "failed"

\* C18: a signal that reaches the orchestrator while the harness runs makes
\* it send SIGTERM to the harness, wait for it, join the tee thread and
\* return 130
C18_Interrupted130 ==
    \A p \in Orchs :
       (orchs[p].pc = "remove_pid" /\ orchs[p].hit)
          => /\ orchs[p].term
             /\ orchs[p].child.kind # "running"
             /\ orchs[p].afk => orchs[p].tee = "joined"
             /\ orchs[p].ret = RetOk(130)

\* C18 (what the poll loop does): once it has sent SIGTERM the orchestrator
\* returns 130, after the harness has ended and the tee thread was joined
C18_Killed130 ==
    \A p \in Orchs :
       (orchs[p].pc = "remove_pid" /\ orchs[p].term)
          => /\ orchs[p].child.kind # "running"
             /\ orchs[p].afk => orchs[p].tee = "joined"
             /\ orchs[p].ret = RetOk(130)

\* C19 (as claimed): an orchestrator that was not signalled returns exactly
\* the harness's exit status, however the harness ended
C19_StatusVerbatim ==
    \A p \in Orchs :
       (orchs[p].pc = "remove_pid" /\ ~orchs[p].interrupted)
          => orchs[p].child = Exited(orchs[p].ret[1].code)

\* C19: an orchestrator that was not signalled returns the harness's exit
\* code when the harness exited, and 1 when a signal killed the harness
C19_ExitCodeOrOne ==
    \A p \in Orchs :
       (orchs[p].pc = "remove_pid" /\ ~orchs[p].interrupted)
          => /\ orchs[p].child.kind = "exited" => orchs[p].ret = RetOk(orchs[p].child.n)
             /\ orchs[p].child.kind = "signaled" => orchs[p].ret = RetOk(1)

C19_Witness ==
    \E p \in Orchs :
       /\ orchs[p].pc = "remove_pid"
       /\ ~orchs[p].interrupted
       /\ orchs[p].child = Signaled(9)
       /\ orchs[p].ret = RetOk(1)

\* the harness was ended by a write to the stdout pipe the tee thread dropped
DiedOfBrokenPipe(st) == st \in {Exited(101), Signaled(13)}

\* C20: a failure of the tee thread never ends the harness and never changes
\* the exit code the orchestrator returns
C20_TeeFailureHarmless ==
    \A p \in Orchs :
       /\ ~DiedOfBrokenPipe(orchs[p].child)
       /\ (orchs[p].pc = "remove_pid" /\ orchs[p].ret[1].ok)
             => orchs[p].ret[1].code \in ExitCodes \cup {1, 130}

\* ---------------------------------------------------------------- ralph
WithinDepth == {d \in cwd.sentinels : d <= SENTINEL_MAX_DEPTH}

\* C21: when an iteration has finished without an interrupt and the sentinel
\* file lies within two directory levels of the working directory, ralph
\* removes it, runs no further child and exits with code 0.
C21_SentinelCompletes ==
    [][/\ (ralph.pc = "after" /\ ~ralph.interrupted /\ WithinDepth # {} /\ ralph'.pc # "after")
            => /\ ralph'.pc = "complete"
               /\ ralph'.runs = ralph.runs
               /\ \E d \in WithinDepth : cwd'.sentinels = cwd.sentinels \ {d}
       /\ (ralph.pc = "complete" /\ ralph'.pc # "complete")
            => /\ ralph'.pc = "exited"
               /\ ralph'.exit = 0
               /\ ralph'.runs = ralph.runs]_vars

\* ralph has exited 0 on a sentinel two levels down, with iterations left over
C21_Witness ==
    /\ ralph.pc = "exited"
    /\ ralph.exit = 0
    /\ ralph.found = SENTINEL_MAX_DEPTH
    /\ ~ralph.interrupted
    /\ ralph.runs < ralph.iterations

\* the smaller of the iterations argument and --max-iterations
Effective == CHOOSE m \in {ralph.cli[1].iterations, ralph.cli[1].max_iterations} :
                 m <= ralph.cli[1].iterations /\ m <= ralph.cli[1].max_iterations

C23_BoundedAndTerminates ==
    /\ [](ralph.cli # None => ralph.runs <= Effective)
    /\ <>(ralph.pc = "exited")

\* the budget was cut to --max-iterations and used up
C23_Witness ==
    /\ ralph.pc = "exited"
    /\ ralph.cli # None
    /\ ralph.cli[1].iterations > ralph.cli[1].max_iterations
    /\ ralph.runs = ralph.cli[1].max_iterations

\* C24: when a signal came while a child was running, ralph has killed the
\* child's whole process group by the time it exits, has started no further
\* run, and exits with code 130.
C24_InterruptKillsGroup ==
    (ralph.hit > 0 /\ ralph.pc = "exited")
        => (ralph.exit = 130 /\ ralph.runs = ralph.hit /\ ~cwd.group)

\* C24, the part the code keeps: after a signal during a run ralph starts no
\* further run and exits with code 130 once that run has returned.
C24_InterruptStops ==
    (ralph.hit > 0 /\ ralph.pc = "exited") => (ralph.exit = 130 /\ ralph.runs = ralph.hit)

\* ralph was interrupted during the first of two runs and killed the child
C24_Witness ==
    /\ ralph.pc = "exited"
    /\ ralph.hit = 1
    /\ ralph.iterations = 2
    /\ ralph.killed

\* the step that ends an iteration without an interrupt: the completion exit,
\* or the end of the pause between iterations
EndsIteration ==
    \/ ralph.pc = "complete" /\ ralph'.pc # "complete"
    \/ ralph.pc = "sleep" /\ ralph'.pc # "sleep" /\ ~ralph.interrupted

\* C25: git push is run in a step exactly when that step ends an iteration,
\* auto-push is enabled and HEAD is not what it was before the iteration.
C25_PushIffHeadMoved ==
    [][cwd'.pushes - cwd.pushes =
          IF EndsIteration /\ ralph.cli[1].auto_push /\ cwd.head # ralph.head_before
          THEN 1 ELSE 0]_vars

\* C25, as the code has it: the push also needs a HEAD that could be read
\* before the iteration and one after it.
C25_PushIffBothHeadsDiffer ==
    [][cwd'.pushes - cwd.pushes =
          IF /\ EndsIteration
             /\ ralph.cli[1].auto_push
             /\ ralph.head_before # None
             /\ cwd.head # None
             /\ cwd.head # ralph.head_before
          THEN 1 ELSE 0]_vars

\* a push was made, and an iteration with auto-push off moved HEAD unpushed
C25_Witness ==
    /\ ralph.pc = "exited"
    /\ ralph.cli # None
    /\ \/ cwd.pushes = 1 /\ ralph.cli[1].auto_push
       \/ cwd.pushes = 0 /\ ~ralph.cli[1].auto_push /\ ralph.exit = 0
                         /\ ralph.head_before # None /\ cwd.head # ralph.head_before

\* C26: every argument vector that build_ralph_args produces is accepted by
\* ralph's command line, so ralph gets past the parse with its options set.
C26_SgfArgsAccepted ==
    (ralph.by_sgf /\ ralph.pc # "parse") => ralph.cli # None

\* C26, what the command line does accept: the same options without
\* --loop-id, which the structure Cli does not declare.
C26_HandArgsAccepted ==
    /\ (~ralph.by_sgf /\ ralph.pc # "parse") => ralph.cli # None
    /\ (ralph.by_sgf /\ ralph.pc # "parse")
          => (ralph.cli = None /\ ralph.pc = "exited" /\ ralph.exit = 2 /\ ralph.runs = 0)

\* a vector built by the orchestrator has been parsed
C26_Witness == ralph.by_sgf /\ ralph.pc # "parse"

\* ------------------------------------------------------- dependency graph
\* the length of the shortest chain of deps rows from id to n (0 when none)
RECURSIVE Distance(_, _, _, _, _)
Distance(deps, frontier, n, direction, d) ==
    IF frontier = {} \/ d > MaxNodes THEN 0
    ELSE IF n \in frontier THEN d
    ELSE Distance(deps, UNION {Next1(deps, m, direction) : m \in frontier}, n, direction, d + 1)

Dist(n) == Distance(calc.deps, Next1(calc.deps, calc.id, calc.direction), n, calc.direction, 1)
Reachable == Beyond(calc.deps, calc.id, calc.direction)
RowsOf(n) == {k \in 1..Len(calc.tree[1]) : calc.tree[1][k].id = n}
NonDecreasing ==
    \A k \in 1..Len(calc.tree[1]) : \A l \in 1..Len(calc.tree[1]) :
        k < l => calc.tree[1][k].depth <= calc.tree[1][l].depth

\* C27: dep_tree lists exactly the issues reachable from the id, each once
\* and with its shortest distance, in non-decreasing order of depth.
C27_TreeOncePerIssue ==
    calc.tree # None =>
        /\ \A k \in 1..Len(calc.tree[1]) : calc.tree[1][k].id \in Reachable
        /\ \A n \in Reachable : \E k \in RowsOf(n) :
              RowsOf(n) = {k} /\ calc.tree[1][k].depth = Dist(n)
        /\ NonDecreasing

\* C27, as the code has it: a row for every chain of deps rows that leads to
\* the issue, so every reachable issue is listed, its first row carries the
\* shortest distance, and the depths do not decrease.
C27_TreeRowPerPath ==
    calc.tree # None =>
        /\ \A k \in 1..Len(calc.tree[1]) : calc.tree[1][k].id \in Reachable
        /\ \A n \in Reachable : \E k \in RowsOf(n) :
              /\ calc.tree[1][k].depth = Dist(n)
              /\ \A l \in RowsOf(n) : calc.tree[1][l].depth >= Dist(n)
        /\ NonDecreasing

\* the tree of a chain of three issues has been computed
C27_Witness ==
    /\ calc.tree # None
    /\ Len(calc.tree[1]) = 2
    /\ calc.tree[1][2].depth = 2

\* C28: detect_cycles reports something exactly when the deps rows contain
\* a cycle.
C28_CyclesIffReported ==
    calc.cycles # None => ((calc.cycles[1] # <<>>) <=> Cyclic(calc.deps))

IsCycle(c) ==
    /\ Len(c) > 2
    /\ c[1] = c[Len(c)]
    /\ \A k \in 1..(Len(c) - 1) : <<c[k], c[k + 1]>> \in calc.deps

\* C28, as the code has it: every reported sequence is a cycle of the rows,
\* and a cycle through the first issue the search starts from is reported.
C28_ReportedAreCycles ==
    calc.cycles # None =>
        /\ \A k \in 1..Len(calc.cycles[1]) : IsCycle(calc.cycles[1][k])
        /\ (\E n \in Nodes : n = calc.order[1] /\ OnCycle(calc.deps, n)) => calc.cycles[1] # <<>>

\* a cycle was reported
C28_Witness == calc.cycles # None /\ calc.cycles[1] # <<>>

\* --------------------------------------------------------- prompt assembly
\* the template after substitution
Substituted == Substitute(calc.template[1], calc.vars)

\* text[i..j+1] is "{{", then a non-empty run without a newline and up to
\* the first "}}", then that "}}"
TokenAt(text, i, j) ==
    /\ i + 2 < j
    /\ j + 1 <= Len(text)
    /\ SubSeq(text, i, i + 1) = Open
    /\ SubSeq(text, j, j + 1) = Close
    /\ \A k \in (i + 2)..(j - 1) : text[k] # "\n" /\ SubSeq(text, k, k + 1) # Close

\* the same with a run of plain characters, no brace in it
PlainTokenAt(text, i, j) ==
    /\ TokenAt(text, i, j)
    /\ \A k \in (i + 2)..(j - 1) : text[k] \notin {"{", "}"}

HasToken(text) == \E i \in 1..Len(text) : \E j \in 1..Len(text) : TokenAt(text, i, j)
HasPlainToken(text) == \E i \in 1..Len(text) : \E j \in 1..Len(text) : PlainTokenAt(text, i, j)
Assembled == calc.result # None /\ calc.template # None

\* C29: assembly fails with the unresolved-variable error exactly when the
\* substituted text contains a non-empty single-line {{...}} token, and the
\* error names every such token (it is part of a listed one); otherwise it
\* succeeds and writes the substituted text.
C29_FailsIffToken ==
    Assembled =>
        /\ HasPlainToken(Substituted) => calc.result[1].kind = "InvalidData"
        /\ calc.result[1].kind = "InvalidData" => HasToken(Substituted)
        /\ \A i \in 1..MaxText : \A j \in 1..MaxText :
              (j + 1 <= Len(Substituted) /\ PlainTokenAt(Substituted, i, j))
                 => \E k \in 1..Len(calc.result[1].tokens) :
                       find(calc.result[1].tokens[k], SubSeq(Substituted, i, j + 1)) # 0
        /\ calc.result[1].kind = "Ok" => calc.result[1].written = Some(Substituted)

\* C29, as the code has it: the text is cut from each "{{" to the next "}}",
\* the search going on behind it; assembly fails exactly when one of these
\* pieces is a non-empty single-line token and names those. A token that
\* lies inside a piece with a newline or after an unclosed "{{" is not seen.
C29_FailsIffScannedToken ==
    Assembled =>
        /\ calc.result[1].kind = "InvalidData" => HasToken(Substituted)
        /\ \A k \in 1..Len(calc.result[1].tokens) :
              LET t == calc.result[1].tokens[k] IN TokenAt(t, 1, Len(t) - 1)
        /\ (HasPlainToken(Substituted) /\ \A k \in 1..Len(Substituted) : Substituted[k] # "\n")
              => calc.result[1].kind = "InvalidData"
        /\ calc.result[1].kind \in {"Ok", "InvalidData"}
        /\ calc.result[1].kind = "Ok" => calc.result[1].written = Some(Substituted)

\* a template failed on its one token, for which no variable was given
C29_Witness ==
    /\ Assembled
    /\ calc.vars = <<>>
    /\ calc.result[1].kind = "InvalidData"
    /\ calc.result[1].tokens = <<Open \o <<"a">> \o Close>>

\* -------------------------------------------------------------------- init
\* C30: after a second run of init, .gitignore, .claude/settings.json and
\* .pre-commit-config.yaml are what the first run left, byte for byte.
C30_SecondRunChangesNothing ==
    calc.runs = 2 =>
        /\ calc.gitignore = calc.first[1].gitignore
        /\ calc.settings = calc.first[1].settings
        /\ calc.precommit = calc.first[1].precommit

\* init has run twice where the first run added to all three files
C30_Witness ==
    /\ calc.runs = 2
    /\ Len(calc.gitignore[1].lines) > Len(GITIGNORE_ENTRIES) + 2
    /\ calc.settings[1].layout = "written"
    /\ Len(calc.settings[1].doc.permissions.deny) > Len(CLAUDE_SETTINGS_DENY_RULES)
    /\ calc.precommit[1].layout = "written"
    /\ Len(calc.precommit[1].doc.repos) = 2

\* ---------------------------------------------------------------- truncate
\* a sequence of bytes is the encoding of some characters
RECURSIVE IsUtf8(_)
IsUtf8(b) ==
    IF b = <<>> THEN TRUE
    ELSE LET n == IF b[1].c = "." THEN 1 ELSE len_utf8(b[1].c) IN
         /\ n <= Len(b)
         /\ \A k \in 1..n : b[k] = [c |-> b[1].c, k |-> k]
         /\ IsUtf8(SubSeq(b, n + 1, Len(b)))

Truncated == calc.result # None
Kept == IF calc.result[1].out = calc.s THEN calc.s
        ELSE SubSeq(calc.result[1].out, 1, Len(calc.result[1].out) - 3)

\* C31: truncate returns without a panic, what it keeps of s ends at a
\* character boundary of s, and the result is valid UTF-8.
C31_TruncateUtf8Safe ==
    Truncated =>
        /\ ~calc.result[1].panic
        /\ Kept = SubSeq(calc.s, 1, Len(Kept))
        /\ is_char_boundary(calc.s, Len(Kept))
        /\ IsUtf8(calc.result[1].out)

\* a string of multi-byte characters was cut inside
C31_Witness ==
    /\ Truncated
    /\ Len(calc.s) > Len(calc.chars)
    /\ Len(Kept) < Len(calc.s)
    /\ Len(Kept) > 1

\* C40: truncate returns s when s has at most max characters, and otherwise
\* the first max characters of s followed by "...".
C40_TruncateByChars ==
    Truncated =>
        calc.result[1].out =
            IF Len(calc.chars) <= calc.max THEN calc.s
            ELSE Encode(SubSeq(calc.chars, 1, calc.max)) \o Dots

\* C40, as the code has it: s is returned when it has at most max bytes;
\* otherwise the result is "..." after the first max characters of s, after
\* all of s when it has fewer, and after its first character when max is 0.
C40_TruncateByBytes ==
    Truncated =>
        calc.result[1].out =
            IF Len(calc.s) <= calc.max THEN calc.s
            ELSE IF Len(calc.chars) <= calc.max THEN calc.s \o Dots
            ELSE IF calc.max = 0 THEN Encode(SubSeq(calc.chars, 1, 1)) \o Dots
            ELSE Encode(SubSeq(calc.chars, 1, calc.max)) \o Dots

\* a string of more than max characters was cut to max of them
C40_Witness ==
    /\ Truncated
    /\ calc.max > 0
    /\ Len(calc.chars) > calc.max
    /\ calc.result[1].out = Encode(SubSeq(calc.chars, 1, calc.max)) \o Dots

\* the steps of pre_launch_recovery that destroy state: the removal of the
\* PID files, git checkout, git clean and pn doctor --fix
Destructive == {"remove", "checkout", "clean", "doctor"}

\* C32: no process takes a destructive recovery step while the harness of
\* another loop is running.
C32_RecoveryNeverDisturbs ==
    [][\A p \in Orchs :
          (orchs[p].pc \in Destructive /\ orchs'[p] # orchs[p])
             => \A q \in Orchs \ {p} : orchs[q].child.kind # "running"]_vars

\* C32, what the check does ensure: a process that takes a destructive step
\* had listed no PID file of a process that was alive when it looked.
C32_RecoveryAfterAllStale ==
    [][\A p \in Orchs :
          (orchs[p].pc \in Destructive /\ orchs'[p] # orchs[p])
             => (~orchs[p].any_alive /\ orchs[p].pid_entries # {})]_vars

\* C34: two runs that are under way at the same time have different loop ids.
C34_DistinctLoopIds ==
    \A p \in Orchs : \A q \in Orchs \ {p} :
       (orchs[p].pc \notin {"off", "done"} /\ orchs[q].pc \notin {"off", "done"})
          => orchs[p].loop_id # orchs[q].loop_id

\* C35: once a run has ended, no file of .sgf/run holds its pid.
C35_NoPidFileLeft ==
    \A p \in Orchs : orchs[p].pc = "done" => \A f \in DOMAIN run_dir : run_dir[f] # p

\* C35, the path on which run does remove the file: run_afk or
\* run_interactive returned an exit code.
C35_RemovedAfterExitCode ==
    [][\A p \in Orchs :
          (orchs'[p].pc = "done" /\ orchs[p].pc # "done" /\ orchs'[p].ret[1].ok)
             => orchs[p].loop_id \notin DOMAIN run_dir']_vars

\* ------------------------------------------------------------------ add_dep
AddDepOfExisting ==
    /\ IsCall
    /\ last'.req.op = "add_dep"
    /\ Exists(db, last'.req.id)
    /\ Exists(db, last'.req.parent)

ClosesCycle == last'.req.id = last'.req.parent \/ last'.req.id \in ReachableFrom(db.deps, last'.req.parent)

AddedEdge ==
    /\ last'.res.kind = "Ok"
    /\ db'.deps = db.deps \cup {<<last'.req.id, last'.req.parent>>}
    /\ Len(Appended) = 1
    /\ Appended[1].issue_id = last'.req.id
    /\ Appended[1].event_type = "dep_added"

\* C33: add_dep on existing issues fails with CycleDetected exactly when the
\* child is the parent or is reachable from it; in every other case it
\* succeeds, the edge is there afterwards and one dep_added event on the
\* child is appended.
C33_AddDepCycleOrSuccess ==
    [][AddDepOfExisting =>
          IF ClosesCycle THEN last'.res.kind = "CycleDetected" /\ db' = db
          ELSE AddedEdge]_vars

\* C33, as the code has it: an edge that is already there is refused by the
\* primary key of deps with an Internal error, nothing being written.
C33_AddDepUnlessPresent ==
    [][AddDepOfExisting =>
          IF ClosesCycle THEN last'.res.kind = "CycleDetected" /\ db' = db
          ELSE IF <<last'.req.id, last'.req.parent>> \in db.deps
          THEN last'.res.kind = "Internal" /\ db' = db
          ELSE AddedEdge]_vars

\* an edge was added between two issues
C33_Witness ==
    /\ last.req.op = "add_dep"
    /\ last.res.kind = "Ok"
    /\ <<last.req.id, last.req.parent>> \in db.deps

\* ------------------------------------------------------- stale sentinels
\* the sentinel files of earlier runs that a search from the working directory reaches
OldWithinDepth == {d \in cwd.old : d <= SENTINEL_MAX_DEPTH}

\* C38: ralph exits 0 only on a sentinel that was created during the current
\* run: the sentinel on which it goes to COMPLETE is never a file that was
\* there before ralph started.
C38_CompleteOnlyOnNewSentinel ==
    [][(ralph.pc = "after" /\ ralph'.pc = "complete") => ralph'.found \notin cwd.old]_vars

\* C38, as the code has it: remove_sentinel() before the loop takes away one
\* of the old sentinels within reach, and leaves the others.
C38_RemovesOneOldSentinel ==
    [][(ralph.pc = "clean" /\ ralph'.pc # "clean")
          => \/ OldWithinDepth = {} /\ cwd' = cwd
             \/ \E d \in OldWithinDepth : cwd'.old = cwd.old \ {d}]_vars

\* ralph has exited 0 on a sentinel the child wrote, an old one having been removed at the start
C38_Witness ==
    /\ ralph.pc = "exited"
    /\ ralph.exit = 0
    /\ ralph.found = SENTINEL_MAX_DEPTH
    /\ cwd.old = {}
    /\ ralph.runs >= 2

\* ------------------------------------------------------------ termination
\* a cycle lies on the way from the issue in the direction asked for
CycleAhead == calc.pc \in {"tree", "done"} /\ \E n \in Beyond(calc.deps, calc.id, calc.direction) : OnCycle(calc.deps, n)

\* C37: has_cycle, detect_cycles and dep_tree each return on every edge set
\* that can be stored, one with a cycle included.
C37_AllTerminate == <>(calc.pc = "done")

\* C37, as the code has it: detect_cycles and has_cycle return on every edge
\* set, has_cycle with the answer of the reachability search; dep_tree
\* returns unless a cycle lies ahead of the issue, and then it never does.
C37_TerminateUnlessCycleAhead ==
    /\ <>(calc.pc \in {"seed", "tree", "done"})
    /\ <>(calc.pc = "done" \/ CycleAhead)
    /\ [](CycleAhead => calc.pc # "done")
    /\ [](calc.pc = "while" => calc.visited \subseteq Bfs(calc.deps, {calc.id}, {calc.id}))
    /\ [](calc.pc \in {"bfs", "while", "seed", "tree", "done"}
             => calc.cycles = detect_cycles(calc.deps, Ascending))

\* all three have returned, dep_tree after the rounds of a chain through every issue
C37_Witness ==
    /\ calc.pc = "done"
    /\ calc.rounds = MaxNodes - 1
    /\ calc.cycles = <<>>
    /\ calc.cycle = Some(TRUE)

\* ------------------------------------------------------- errors over HTTP
\* C39: whatever error the engine raised, the error the client builds from
\* the response it could read is of the same kind.
C39_SameKind == calc.pc = "parsed" => calc.got[1].kind = calc.err.kind

\* C39, as the code has it: the kinds that have a code come back as they
\* were; DeleteRequiresForce has none and comes back as Internal, with its
\* message kept.
C39_SameKindIfCoded ==
    calc.pc = "parsed" =>
        /\ calc.got[1].kind = IF code(calc.err) # None THEN calc.err.kind ELSE "Internal"
        /\ calc.err.kind = "DeleteRequiresForce" => calc.got[1].a = to_string(calc.err)

\* an AlreadyClaimed error has reached the client as AlreadyClaimed
C39_Witness ==
    /\ calc.pc = "parsed"
    /\ calc.err.kind = "AlreadyClaimed"
    /\ calc.got[1].kind = "AlreadyClaimed"
    /\ calc.resp[1].status = 409

\* ------------------------------------------------------ waiting for the daemon
\* the daemon answers at time t
Up(t) == calc.ready_at # Never /\ calc.ready_at <= t
WentOn == calc.pc \in {"write_pid", "spawn", "running"} \/ calc.pid_file
Started == calc.started_at # Never
TimedOut == calc.pc = "failed" /\ calc.err = "TimedOut"

\* C36: the harness is spawned only after a probe of the daemon succeeded;
\* when the daemon was started and is not reachable within 5 seconds of
\* that, the launch fails with a timeout, without PID file and without
\* harness.
C36_TimeoutUnlessReadyInFive ==
    /\ (WentOn \/ calc.harness) => Up(calc.now)
    /\ (Started /\ ~Up(calc.started_at + DEADLINE_MS))
          => /\ ~WentOn /\ ~calc.harness
             /\ calc.pc = "failed" => calc.err = "TimedOut"

\* C36, with the last probe where the code makes it: the deadline is looked
\* at before the sleep, so the last probe comes up to one sleep (100 ms and
\* its overrun) after the deadline. The launch goes on only when a probe
\* found the daemon reachable; when none did, it fails with a timeout after
\* the deadline, without PID file and without harness.
C36_TimeoutUnlessReadyAtLastProbe ==
    /\ (WentOn \/ calc.harness) => Up(calc.now)
    /\ (WentOn /\ Started) => calc.now < calc.deadline + POLL_MS + MaxLate
    /\ (Started /\ ~Up(calc.started_at + DEADLINE_MS + POLL_MS + MaxLate))
          => /\ ~WentOn /\ ~calc.harness
             /\ calc.pc = "failed" => calc.err = "TimedOut"
    /\ TimedOut => /\ calc.now >= calc.deadline
                   /\ ~calc.pid_file /\ ~calc.harness
                   /\ ~Up(calc.now)
    /\ (Started /\ Up(calc.started_at + DEADLINE_MS - POLL_MS - MaxLate))
          => ~TimedOut

\* the daemon was started and answers too late for the last probe: the launch has timed out
C36_Witness ==
    /\ TimedOut
    /\ Started
    /\ calc.ready_at = calc.started_at + DEADLINE_MS + POLL_MS + MaxLate
    /\ ~calc.pid_file

====
